---- MODULE Spec2Model ----
(***************************************************************************)
(* Model of the cached external-data aggregation layer of the aviation     *)
(* dashboard (src/app.py): the timed_cache decorator, the Strava token     *)
(* provider and activity fetcher, the source fetchers and the activity     *)
(* aggregators.                                                            *)
(*                                                                         *)
(* Time is the wall clock in seconds (time() and datetime.now()).  Every   *)
(* action is one whole call of the function it is named after.             *)
(***************************************************************************)
EXTENDS Integers, Sequences, FiniteSets, TLC

VARIABLES
    now,          \* wall clock, seconds
    cache,        \* cache[op]: the dict of the timed_cache closure of op
    hist,         \* history: per op and key, the last underlying invocation
                  \* (with concurrent callers: the invocation behind an
                  \* entry stored by a thread that was inside func at the
                  \* last clear_cache())
    cleared,      \* history: per op, the entries dropped by clear_cache()
                  \* for the keys not called since (with concurrent
                  \* callers: the threads inside func at clear_cache())
    lastCall,     \* history: what the last cache step did
    wrapped,      \* the decorated function the cache model exercises
    refreshToken, \* STRAVA_REFRESH_TOKEN ("" when not configured)
    accessToken,  \* STRAVA_ACCESS_TOKEN ("None" for None)
    tokenExpiry,  \* STRAVA_TOKEN_EXPIRY
    lastReq,      \* history: what the last call of the token model did
    fetched,      \* history: the last call of a source fetcher, its
                  \* upstream answers and how it ended
    activities,   \* the activity list handed to the aggregators
    utcOffset,    \* offset of Europe/Berlin from UTC, seconds
    aggregated,   \* history: the last call of an aggregator and its result
    airport,      \* APP_SETTINGS['airport_icao']
    response,     \* history: the last HTTP request and the response to it
    callers       \* the threads inside a timed_cache wrapper: where each
                  \* one is, the clock value it read and what func returned;
                  \* in the token model the threads inside get_strava_token
                  \* and refresh_strava_token, with token_data

cacheVars == <<cache, hist, cleared, lastCall, wrapped>>

tokenVars == <<refreshToken, accessToken, tokenExpiry, lastReq>>

aggVars == <<activities, utcOffset, aggregated>>

webVars == <<airport, response, callers>>

vars == <<now, cacheVars, tokenVars, fetched, aggVars, webVars>>

(***************************************************************************)
(* Bounds of the model.                                                    *)
(***************************************************************************)
\* the cache model looks at the clock at the first MaxInstants of Instants
MaxInstants == 6

\* instants (seconds) at which requests arrive: they lie a time-to-live,
\* less than one and more than one apart for each of the four time-to-lives
Instants == <<0, 300, 600, 1800, 3600, 3900, 7200, 7500>>

\* the token model looks at the clock at the first MaxTokenInstants of
\* TokenInstants
MaxTokenInstants == 5

\* a token valid for 600 seconds from 0 is outside the safety margin at 100
\* and 200, at its edge at 300 and expires in 200 seconds at 400
TokenInstants == <<0, 100, 300, 400, 700, 1000, 1300>>

\* how many keys of an upstream JSON object may be absent, null or malformed
MaxOddKeys == 1

\* how many candidates the earth-image source may list
MaxEpicItems == 4

\* expires_at - now of the token responses (seconds): a token that lasts
\* and one that is inside the safety margin when it is issued
LongLived == 600

ShortLived == 200

(***************************************************************************)
(* How a function body ends: it returns a value, raises, or falls out of   *)
(* its try block without returning.                                        *)
(***************************************************************************)
Return(v) == [tag |-> "return", val |-> v]

Raise == [tag |-> "raise", val |-> "exception"]

FallThrough == [tag |-> "fall", val |-> "none"]

(***************************************************************************)
(* timed_cache                                                             *)
(***************************************************************************)
Ops == {"fetch_metar", "fetch_taf", "fetch_nasa_apod", "fetch_nasa_epic",
        "calculate_sun_moon_times", "fetch_strava_activities"}

\* the seconds argument of each @timed_cache(seconds=...)
TTL(op) ==
    CASE op = "fetch_strava_activities"  -> 1800
      [] op = "fetch_metar"              -> 300
      [] op = "fetch_nasa_apod"          -> 3600
      [] op = "fetch_nasa_epic"          -> 3600
      [] op = "fetch_taf"                -> 600
      [] op = "calculate_sun_moon_times" -> 3600

Stations == {"EDLP", "EDDF"}

\* the positional arguments the routes call each wrapped operation with
ArgsOf(op) ==
    IF op \in {"fetch_metar", "fetch_taf"}
    THEN {<<s>> : s \in Stations}
    ELSE {<<>>}

\* key = str(args) + str(kwargs); the routes never pass keyword arguments
CacheKey(args, kwargs) == <<args, kwargs>>

NoKwargs == <<>>

\* what the underlying operation can return: a record built from the
\* upstream data, or its failure value (a fallback record, None)
UpstreamResults == {"data", "failure"}

EmptyDict == <<>>

DictPut(d, k, v) == [x \in (DOMAIN d) \cup {k} |-> IF x = k THEN v ELSE d[x]]

NoInvocation == [at |-> -1, result |-> "none"]

NoEntry == [result |-> "none", timestamp |-> -1]

NoCall(kind, op, t) ==
    [kind |-> kind, op |-> op, key |-> <<>>, at |-> t, invoked |-> FALSE,
     ret |-> "none", prev |-> NoInvocation, hadEntry |-> FALSE,
     entry |-> NoEntry, afterClear |-> FALSE, dropped |-> NoEntry]

\* `now - timestamp <= seconds`: an entry of age seconds is still served
IsFreshLe(ts, t, seconds) == t - ts <= seconds

\* `now - timestamp < seconds`
IsFresh(ts, t, seconds) == t - ts < seconds

\* a hit test that never looks at the age
CacheHitAnyAge(op, key, t) == key \in DOMAIN cache[op]

\* a hit test that never serves a stored failure
CacheHitOnData(op, key, t) ==
    /\ key \in DOMAIN cache[op]
    /\ cache[op][key].result # "failure"
    /\ IsFresh(cache[op][key].timestamp, t, TTL(op))


\* wrapper(*args): the hit test of lines 61-65
CacheHit(op, key, t) ==
    /\ key \in DOMAIN cache[op]
    /\ IsFresh(cache[op][key].timestamp, t, TTL(op))

HistOf(op, key) ==
    IF key \in DOMAIN hist[op] THEN hist[op][key] ELSE NoInvocation

EntryOf(op, key) ==
    IF key \in DOMAIN cache[op] THEN cache[op][key] ELSE NoEntry

DictDrop(d, k) == [x \in (DOMAIN d) \ {k} |-> d[x]]

\* wrapper(*args, **kwargs) of timed_cache; res is what func returns if it
\* is invoked
CallWrapped(op, args, res) ==
    LET key == CacheKey(args, NoKwargs)
        hit == CacheHit(op, key, now)
        ret == IF hit THEN cache[op][key].result ELSE res
    IN  /\ cache' = IF hit THEN cache
                    ELSE [cache EXCEPT ![op] =
                            DictPut(@, key, [result |-> res, timestamp |-> now])]
        /\ hist' = IF hit THEN hist
                   ELSE [hist EXCEPT ![op] =
                            DictPut(@, key, [at |-> now, result |-> res])]
        /\ cleared' = [cleared EXCEPT ![op] = DictDrop(@, key)]
        /\ lastCall' = [kind |-> "call", op |-> op, key |-> key, at |-> now,
                        invoked |-> ~hit, ret |-> ret,
                        prev |-> HistOf(op, key),
                        hadEntry |-> key \in DOMAIN cache[op],
                        entry |-> EntryOf(op, key),
                        afterClear |-> key \in DOMAIN cleared[op],
                        dropped |-> IF key \in DOMAIN cleared[op]
                                    THEN cleared[op][key] ELSE NoEntry]
        /\ UNCHANGED <<webVars, aggVars, now, wrapped, tokenVars, fetched>>

\* a clear_cache that leaves the dict as it is
ClearedDictKept(d) == d

\* wrapper.clear_cache = lambda: cache.clear()
ClearedDict(d) == EmptyDict

ClearCache(op) ==
    /\ cache' = [cache EXCEPT ![op] = ClearedDict(@)]
    /\ hist' = [hist EXCEPT ![op] = EmptyDict]
    /\ cleared' = [cleared EXCEPT ![op] =
                     [a \in {CacheKey(x, NoKwargs) : x \in ArgsOf(op)} |->
                        EntryOf(op, a)]]
    /\ lastCall' = NoCall("clear", op, now)
    /\ UNCHANGED <<webVars, aggVars, now, wrapped, tokenVars, fetched>>

CacheTickStep ==
    /\ \E i \in 1..MaxInstants :
          /\ i <= Len(Instants)
          /\ Instants[i] > now
          /\ now' = Instants[i]
    /\ lastCall' = NoCall("tick", "none", now')
    /\ UNCHANGED <<webVars, aggVars, cache, hist, cleared, wrapped, tokenVars, fetched>>

NoReq(kind, t) ==
    [kind |-> kind, at |-> t, pre |-> [token |-> "None", expiry |-> 0],
     trace |-> <<>>, ret |-> "None", tokenCall |-> [trace |-> <<>>, ret |-> "None"]]

\* module level: STRAVA_ACCESS_TOKEN = None, STRAVA_TOKEN_EXPIRY = 0
NoFetch ==
    [op |-> "none", station |-> "", inputs |-> <<>>, out |-> FallThrough]

\* the activity list as the aggregators get it: None, or a list of records
NoneActivities == [none |-> TRUE, items |-> <<>>]

NoAgg == [op |-> "none", out |-> FallThrough]

\* the threads that can be inside one wrapper at a time
MaxCallers == 2

Callers == 1..MaxCallers

Idle == [pc |-> "idle", now |-> 0, result |-> "none"]

NoResponse == [endpoint |-> "none", method |-> "GET", status |-> 0,
               json |-> FALSE, body |-> <<>>]

\* load_settings() without a settings file; no request served, no thread
\* inside a wrapper
InitWeb ==
    /\ airport = "EDLP"
    /\ response = NoResponse
    /\ callers = [c \in Callers |-> Idle]

InitTokenState ==
    /\ InitWeb
    /\ accessToken = "None"
    /\ tokenExpiry = 0
    /\ lastReq = NoReq("init", 0)
    /\ fetched = NoFetch
    /\ activities = NoneActivities
    /\ utcOffset = 3600
    /\ aggregated = NoAgg

\* SpecCache exercises one decorated function per behaviour, any of the six
InitCache ==
    /\ wrapped \in Ops
    /\ now = 0
    /\ cache = [op \in Ops |-> EmptyDict]
    /\ hist = [op \in Ops |-> EmptyDict]
    /\ cleared = [op \in Ops |-> EmptyDict]
    /\ lastCall = NoCall("init", "none", 0)
    /\ refreshToken = "rt"
    /\ InitTokenState

CallAny == \E args \in ArgsOf(wrapped) : \E res \in UpstreamResults :
              CallWrapped(wrapped, args, res)

ClearAny == ClearCache(wrapped)

NextCache ==
    \/ CallAny
    \/ ClearAny
    \/ CacheTickStep

SpecCache == InitCache /\ [][NextCache]_vars

(***************************************************************************)
(* Claims about timed_cache, checked under SpecCache.                      *)
(***************************************************************************)

\* C1: with no clear_cache in between, a call made less than TTL seconds
\* after the call that last invoked the underlying operation for the same
\* arguments does not invoke it and returns the stored result; a call made
\* TTL seconds or more after it invokes the operation again; the first call
\* for given arguments always invokes it.
C1_TwoCallsOneInvocation ==
    lastCall.kind = "call" =>
        LET p == lastCall.prev
            age == lastCall.at - p.at
        IN  /\ p.at = -1 => lastCall.invoked
            /\ (p.at # -1 /\ age < TTL(lastCall.op)) =>
                   (~lastCall.invoked /\ lastCall.ret = p.result)
            /\ (p.at # -1 /\ age >= TTL(lastCall.op)) => lastCall.invoked

\* a second call, later than the first but within the time-to-live, was
\* answered from the cache
C1_Witness ==
    /\ lastCall.kind = "call"
    /\ lastCall.prev.at # -1
    /\ lastCall.at > lastCall.prev.at
    /\ lastCall.at - lastCall.prev.at < TTL(lastCall.op)
    /\ ~lastCall.invoked

\* C2: a stored value is returned only if now - storedAt < ttl at the call;
\* an entry of age ttl or more is not served: the operation is invoked and
\* the entry becomes the pair (result, now).
C2_ServedOnlyIfFresh ==
    lastCall.kind = "call" =>
        LET e == lastCall.entry
            age == lastCall.at - e.timestamp
        IN  /\ ~lastCall.invoked =>
                   /\ lastCall.hadEntry
                   /\ age < TTL(lastCall.op)
                   /\ lastCall.ret = e.result
            /\ (lastCall.hadEntry /\ age >= TTL(lastCall.op)) =>
                   /\ lastCall.invoked
                   /\ cache[lastCall.op][lastCall.key] =
                          [result |-> lastCall.ret, timestamp |-> lastCall.at]

\* an entry of age exactly ttl was recomputed and overwritten
C2_Witness ==
    /\ lastCall.kind = "call"
    /\ lastCall.hadEntry
    /\ lastCall.at - lastCall.entry.timestamp = TTL(lastCall.op)
    /\ lastCall.invoked
    /\ cache[lastCall.op][lastCall.key].timestamp = lastCall.at

\* C3: the first call of an operation after its clear_cache(), for any
\* arguments, invokes the underlying operation, however young the entries
\* were that clear_cache() dropped.
C3_ClearForcesInvocation ==
    (lastCall.kind = "call" /\ lastCall.afterClear) => lastCall.invoked

\* the call follows a clear_cache() that dropped an entry which would still
\* have been served
C3_Witness ==
    /\ lastCall.kind = "call"
    /\ lastCall.afterClear
    /\ lastCall.dropped.timestamp # -1
    /\ lastCall.at - lastCall.dropped.timestamp < TTL(lastCall.op)
    /\ lastCall.invoked

(***************************************************************************)
(* Strava token provider and activity fetcher                              *)
(***************************************************************************)

\* the safety margin of get_strava_token, seconds
SafetyMargin == 300

\* `not token`: None and the empty string are falsy
NoToken(tok) == tok \in {"None", ""}

\* what the token endpoint can answer at time t: a transport error, a
\* non-200 status, or a 200 whose body carries both keys (a token that
\* lasts, one that is already inside the safety margin, an empty token) or
\* lacks one ("missing", -1)
NoBody == [access_token |-> "missing", expires_at |-> -1]

TokenBodies(t) ==
    {[access_token |-> "tokA", expires_at |-> t + LongLived],
     [access_token |-> "tokB", expires_at |-> t + LongLived],
     [access_token |-> "tokB", expires_at |-> t + ShortLived],
     [access_token |-> "", expires_at |-> t + LongLived],
     [access_token |-> "missing", expires_at |-> t + LongLived],
     [access_token |-> "tokB", expires_at |-> -1]}

PostResponses(t) ==
    {[status |-> st, body |-> NoBody] : st \in {"error", "non200"}}
    \cup {[status |-> "200", body |-> b] : b \in TokenBodies(t)}

\* what the activities endpoint can answer: a transport error, 401, another
\* non-200 status, or a 200 whose body is a list of activities or not JSON
GetResponses ==
    {[status |-> st, body |-> "nojson"] : st \in {"error", "401", "500"}}
    \cup {[status |-> "200", body |-> b] : b \in {"acts", "nojson"}}

RefreshEvent(posted, resp, before, after, ret) ==
    [ev |-> "refresh", posted |-> posted, outcome |-> resp.status,
     body |-> resp.body, before |-> before, after |-> after, ret |-> ret]

\* a refresh_strava_token that stores the new token and leaves the stored
\* expiry as it was
RefreshStravaTokenKeepingExpiry(rt, st, resp) ==
    IF rt # "" /\ resp.status = "200"
       /\ resp.body.access_token # "missing" /\ resp.body.expires_at # -1
    THEN LET after == [st EXCEPT !.token = resp.body.access_token]
         IN  [st |-> after, ret |-> after.token,
              ev |-> RefreshEvent(TRUE, resp, st, after, after.token)]
    ELSE [st |-> st, ret |-> "None",
          ev |-> RefreshEvent(rt # "", resp, st, st, "None")]

\* a refresh_strava_token that forgets the stored token when the exchange
\* fails
RefreshStravaTokenClearing(rt, st, resp) ==
    IF rt # "" /\ resp.status = "200"
       /\ resp.body.access_token # "missing" /\ resp.body.expires_at # -1
    THEN LET after == [token |-> resp.body.access_token,
                       expiry |-> resp.body.expires_at]
         IN  [st |-> after, ret |-> after.token,
              ev |-> RefreshEvent(TRUE, resp, st, after, after.token)]
    ELSE LET after == [token |-> "None", expiry |-> 0]
         IN  [st |-> after, ret |-> "None",
              ev |-> RefreshEvent(rt # "", resp, st, after, "None")]

\* a refresh_strava_token that asks the token endpoint without looking for
\* a configured refresh token
RefreshStravaTokenUnconfigured(rt, st, resp) ==
    IF resp.status = "200"
       /\ resp.body.access_token # "missing" /\ resp.body.expires_at # -1
    THEN LET after == [token |-> resp.body.access_token,
                       expiry |-> resp.body.expires_at]
         IN  [st |-> after, ret |-> after.token,
              ev |-> RefreshEvent(TRUE, resp, st, after, after.token)]
    ELSE [st |-> st, ret |-> "None",
          ev |-> RefreshEvent(TRUE, resp, st, st, "None")]

\* refresh_strava_token(); st is (STRAVA_ACCESS_TOKEN, STRAVA_TOKEN_EXPIRY)
\* and resp the answer of the token endpoint, if it is asked
RefreshStravaToken(rt, st, resp) ==
    IF rt = ""
    THEN \* no refresh token configured: no request is made
         [st |-> st, ret |-> "None",
          ev |-> RefreshEvent(FALSE, resp, st, st, "None")]
    ELSE IF resp.status = "200"
    THEN IF resp.body.access_token = "missing"
         THEN \* token_data['access_token'] raises
              [st |-> st, ret |-> "None",
               ev |-> RefreshEvent(TRUE, resp, st, st, "None")]
         ELSE IF resp.body.expires_at = -1
         THEN \* token_data['expires_at'] raises after the token is stored
              LET after == [st EXCEPT !.token = resp.body.access_token]
              IN  [st |-> after, ret |-> "None",
                   ev |-> RefreshEvent(TRUE, resp, st, after, "None")]
         ELSE LET after == [token |-> resp.body.access_token,
                            expiry |-> resp.body.expires_at]
              IN  [st |-> after, ret |-> after.token,
                   ev |-> RefreshEvent(TRUE, resp, st, after, after.token)]
    ELSE \* a non-200 status, or httpx.post raises
         [st |-> st, ret |-> "None",
          ev |-> RefreshEvent(TRUE, resp, st, st, "None")]

\* a check that lets a token through at the very edge of the margin
NeedsRefreshLate(st, t) ==
    NoToken(st.token) \/ t > st.expiry - SafetyMargin

\* `not STRAVA_ACCESS_TOKEN or current_time >= (STRAVA_TOKEN_EXPIRY - 300)`
NeedsRefresh(st, t) ==
    NoToken(st.token) \/ t >= st.expiry - SafetyMargin

\* a get_strava_token that hands out any stored token without looking at
\* its expiry
GetStravaTokenUnchecked(rt, st, t, resp) ==
    IF NoToken(st.token)
    THEN LET r == RefreshStravaToken(rt, st, resp)
         IN  [st |-> r.st, ret |-> r.ret, trace |-> <<r.ev>>]
    ELSE [st |-> st, ret |-> st.token, trace |-> <<>>]

\* get_strava_token()
GetStravaToken(rt, st, t, resp) ==
    IF NeedsRefresh(st, t)
    THEN LET r == RefreshStravaToken(rt, st, resp)
         IN  [st |-> r.st, ret |-> r.ret, trace |-> <<r.ev>>]
    ELSE [st |-> st, ret |-> st.token, trace |-> <<>>]

GetEvent(tok, st, t, resp) ==
    [ev |-> "get", token |-> tok, expiry |-> st.expiry, at |-> t,
     status |-> resp.status, body |-> resp.body]

\* the value of a 200 answer: resp.json(), or None when it raises
JsonOrNone(resp) == IF resp.body = "nojson" THEN "None" ELSE resp.body

\* whether the first answer makes the fetcher refresh and retry
RetriesOnAnyFailure(g1) == g1.status # "200"

RetriesOn(g1) == g1.status = "401"

\* fetch_strava_activities(), the undecorated function: r1 answers the
\* refresh of get_strava_token, g1 the first request, r2 the refresh after
\* a 401 and g2 the retry
FetchStravaActivities(rt, st, t, r1, g1, r2, g2) ==
    LET a == GetStravaToken(rt, st, t, r1)
    IN  IF NoToken(a.ret)
        THEN [st |-> a.st, ret |-> "None", trace |-> a.trace, tokenCall |-> a]
        ELSE
        LET tr1 == Append(a.trace, GetEvent(a.ret, a.st, t, g1))
        IN  IF g1.status = "200"
            THEN [st |-> a.st, ret |-> JsonOrNone(g1), trace |-> tr1,
                  tokenCall |-> a]
            ELSE IF RetriesOn(g1)
            THEN LET b == RefreshStravaToken(rt, a.st, r2)
                     tr2 == Append(tr1, b.ev)
                 IN  IF ~NoToken(b.ret)
                     THEN [st |-> b.st,
                           ret |-> IF g2.status = "200"
                                   THEN JsonOrNone(g2) ELSE "None",
                           trace |-> Append(tr2, GetEvent(b.ret, b.st, t, g2)),
                           tokenCall |-> a]
                     ELSE [st |-> b.st, ret |-> "None", trace |-> tr2,
                           tokenCall |-> a]
            ELSE [st |-> a.st, ret |-> "None", trace |-> tr1, tokenCall |-> a]

TokenState == [token |-> accessToken, expiry |-> tokenExpiry]

\* the answers a call can depend on: one placeholder where the code makes
\* no request
NoPost == [status |-> "error", body |-> NoBody]

NoGet == [status |-> "error", body |-> "nojson"]

PostAnswers(asked, t) == IF asked THEN PostResponses(t) ELSE {NoPost}

GetAnswers(asked) == IF asked THEN GetResponses ELSE {NoGet}

\* one run of fetch_strava_activities on a cache miss (/api/refresh clears
\* the cache and calls it, so it can run at any time); it shares no state
\* with the other sources' fetchers and is not followed after one of them
FetchActivities ==
    /\ fetched.op \in {"none", "fetch_strava_activities"}
    /\ \E r1 \in PostAnswers(refreshToken # "" /\ NeedsRefresh(TokenState, now), now) :
       LET a == GetStravaToken(refreshToken, TokenState, now, r1) IN
       \E g1 \in GetAnswers(~NoToken(a.ret)) :
       LET retry == ~NoToken(a.ret) /\ g1.status # "200" /\ RetriesOn(g1) IN
       \E r2 \in PostAnswers(refreshToken # "" /\ retry, now) :
       \E g2 \in GetAnswers(retry /\ ~NoToken(RefreshStravaToken(refreshToken, a.st, r2).ret)) :
           LET f == FetchStravaActivities(refreshToken, TokenState, now,
                                          r1, g1, r2, g2)
           IN  /\ accessToken' = f.st.token
               /\ tokenExpiry' = f.st.expiry
               /\ lastReq' = [kind |-> "fetch", at |-> now, pre |-> TokenState,
                              trace |-> f.trace, ret |-> f.ret,
                              tokenCall |-> [trace |-> f.tokenCall.trace,
                                             ret |-> f.tokenCall.ret]]
               /\ fetched' = [op |-> "fetch_strava_activities", station |-> "",
                              inputs |-> <<r1, g1, r2, g2>>,
                              out |-> Return(f.ret)]
               /\ UNCHANGED <<webVars, aggVars, now, refreshToken, cacheVars>>

\* the Strava part of api_health(): get_strava_token() when a refresh token
\* is configured
ApiHealth ==
    \E r1 \in PostAnswers(refreshToken # "" /\ NeedsRefresh(TokenState, now), now) :
        LET g == IF refreshToken # ""
                 THEN GetStravaToken(refreshToken, TokenState, now, r1)
                 ELSE [st |-> TokenState, ret |-> "None", trace |-> <<>>]
        IN  /\ accessToken' = g.st.token
            /\ tokenExpiry' = g.st.expiry
            /\ lastReq' = [kind |-> IF refreshToken # "" THEN "health"
                                    ELSE "health_off",
                           at |-> now, pre |-> TokenState,
                           trace |-> g.trace, ret |-> g.ret,
                           tokenCall |-> [trace |-> g.trace, ret |-> g.ret]]
            /\ fetched' = NoFetch
            /\ UNCHANGED <<webVars, aggVars, now, refreshToken, cacheVars>>

TokenTickStep ==
    /\ \E i \in 1..MaxTokenInstants :
          /\ i <= Len(TokenInstants)
          /\ TokenInstants[i] > now
          /\ now' = TokenInstants[i]
    /\ lastReq' = NoReq("tick", now')
    /\ fetched' = NoFetch
    /\ UNCHANGED <<webVars, aggVars, accessToken, tokenExpiry, refreshToken, cacheVars>>

InitToken ==
    /\ now = 0
    /\ refreshToken \in {"", "rt"}
    /\ InitTokenState
    /\ wrapped = "fetch_strava_activities"
    /\ cache = [op \in Ops |-> EmptyDict]
    /\ hist = [op \in Ops |-> EmptyDict]
    /\ cleared = [op \in Ops |-> EmptyDict]
    /\ lastCall = NoCall("init", "none", 0)

NextToken ==
    \/ FetchActivities
    \/ ApiHealth
    \/ TokenTickStep

SpecToken == InitToken /\ [][NextToken]_vars

(***************************************************************************)
(* Source fetchers.  A function body ends by returning a value, by raising *)
(* or by falling out of its try block without returning.                   *)
(***************************************************************************)
\* a try block whose except clause catches nothing
CatchNothing(body, fallback) ==
    IF body.tag = "fall" THEN Return(fallback) ELSE body

\* try: body / except Exception: log / return fallback
Catch(body, fallback) ==
    IF body.tag = "return" THEN body ELSE Return(fallback)

\* a JSON object as a function from the keys the code reads to what the
\* object holds there: no such key, null, a value, or (for the nested
\* readouts) an object without "value", with a null "value", with a "value"
SimpleStates == {"absent", "null", "value"}

NestedStates == {"absent", "null", "no_value", "null_value", "value"}

\* dict.get(key, default) on a top-level key
GetKey(obj, key, default) ==
    CASE obj[key] = "absent" -> default
      [] obj[key] = "null"   -> "None"
      [] OTHER               -> "upstream"

\* whether data.get(key, {}).get("value", "N/A") raises: None has no get
NestedRaises(obj, key) == obj[key] = "null"

\* data.get(key, {}).get("value", "N/A")
GetNested(obj, key) ==
    CASE obj[key] \in {"absent", "no_value"} -> "N/A"
      [] obj[key] = "null_value"             -> "None"
      [] OTHER                               -> "upstream"

\* the response bodies: not JSON, JSON that is no object, or an object in
\* which at most MaxOddKeys keys are not plain values
ObjectsOver(simple, nested) ==
    {o \in [simple \cup nested -> NestedStates] :
        /\ \A k \in simple : o[k] \in SimpleStates
        /\ Cardinality({k \in simple \cup nested : o[k] # "value"}) <= MaxOddKeys}

HttpResponses(objects) ==
    {[status |-> st, kind |-> "none", obj |-> <<>>] : st \in {"error", "non200"}}
    \cup {[status |-> "200", kind |-> k, obj |-> <<>>] : k \in {"nojson", "list"}}
    \cup {[status |-> "200", kind |-> "object", obj |-> o] : o \in objects}

MetarSimple == {"station", "raw", "flight_rules"}

MetarNested == {"wind_direction", "wind_speed", "temperature", "dewpoint",
                "visibility", "altimeter"}

MetarResponses == HttpResponses(ObjectsOver(MetarSimple, MetarNested))

MetarFallback(station) ==
    [station |-> station, raw |-> "METAR nicht verfuegbar",
     flight_rules |-> "N/A", wind_direction |-> "N/A", wind_speed |-> "N/A",
     temperature |-> "N/A", dewpoint |-> "N/A", visibility |-> "N/A",
     altimeter |-> "N/A"]

\* the try block of fetch_metar
MetarTry(station, resp) ==
    CASE resp.status = "error"  -> Raise
      [] resp.status = "non200" -> FallThrough
      [] resp.kind # "object"   -> Raise
      [] \E k \in MetarNested : NestedRaises(resp.obj, k) -> Raise
      [] OTHER ->
            Return([station |-> GetKey(resp.obj, "station", "N/A"),
                    raw |-> GetKey(resp.obj, "raw", "Keine Daten verfuegbar"),
                    flight_rules |-> GetKey(resp.obj, "flight_rules", "N/A"),
                    wind_direction |-> GetNested(resp.obj, "wind_direction"),
                    wind_speed |-> GetNested(resp.obj, "wind_speed"),
                    temperature |-> GetNested(resp.obj, "temperature"),
                    dewpoint |-> GetNested(resp.obj, "dewpoint"),
                    visibility |-> GetNested(resp.obj, "visibility"),
                    altimeter |-> GetNested(resp.obj, "altimeter")])

\* fetch_metar(station), the undecorated function
FetchMetar(station, resp) == Catch(MetarTry(station, resp), MetarFallback(station))

TafKeys == {"station", "raw", "forecast"}

TafResponses == HttpResponses(ObjectsOver(TafKeys, {}))

TafFallback(station) ==
    [station |-> station, raw |-> "TAF nicht verfuegbar", forecast |-> "[]"]

\* the try block of fetch_taf
TafTry(station, resp) ==
    CASE resp.status = "error"  -> Raise
      [] resp.status = "non200" -> FallThrough
      [] resp.kind # "object"   -> Raise
      [] OTHER ->
            Return([station |-> GetKey(resp.obj, "station", station),
                    raw |-> GetKey(resp.obj, "raw", "TAF nicht verfuegbar"),
                    forecast |-> GetKey(resp.obj, "forecast", "[]")])

\* fetch_taf(station), the undecorated function
FetchTaf(station, resp) == Catch(TafTry(station, resp), TafFallback(station))

\* the sun-times answer: "results" may be missing, and each time may be
\* missing, an ISO 8601 string ("value") or something fromisoformat rejects
\* ("null" stands for it)
SunKeys == {"results", "sunrise", "sunset"}

SunResponses == HttpResponses(ObjectsOver(SunKeys, {}))

\* the two sentinels are written with box-drawing dashes in the source
SunFallback == [sunrise |-> "--:--", sunset |-> "--:--"]

\* parse_time(time_str): the local time of day, formatted HH:MM
ParseTime(which) == IF which = "sunrise" THEN "HH:MM rise" ELSE "HH:MM set"

\* the try block of calculate_sun_moon_times
SunTry(resp) ==
    CASE resp.status = "error"  -> Raise
      [] resp.status = "non200" -> FallThrough
      [] resp.kind # "object"   -> Raise
      [] \E k \in SunKeys : resp.obj[k] # "value" -> Raise
      [] OTHER -> Return([sunrise |-> ParseTime("sunrise"),
                          sunset |-> ParseTime("sunset")])

\* calculate_sun_moon_times(), the undecorated function
CalculateSunMoonTimes(resp) == Catch(SunTry(resp), SunFallback)

\* a request the code does not make
Unasked == [status |-> "unasked", kind |-> "none", obj |-> <<>>]

\* a first try block whose result is never returned
TryThenSkipped(body, next) == next

\* try: body / except: log, then go on with the code after the try block
TryThen(body, next) == IF body.tag = "return" THEN body ELSE next

\* the daily-image answer: media_type, url (no YouTube watch page, a watch
\* page with v=<id>, with an empty v=, without v=), title and explanation
ApodObjects ==
    [media_type : {"absent", "image", "video"},
     url : {"absent", "null", "plain", "watch_v", "watch_empty_v", "watch_no_v"},
     title : {"absent", "value"},
     explanation : {"absent", "null", "value"}]

ApodResponses == HttpResponses(ApodObjects)

\* yesterday's answer, whose url is only copied
ApodYesterdayResponses ==
    HttpResponses({o \in ApodObjects : /\ o.media_type # "absent"
                                       /\ o.url \in {"absent", "null", "plain"}})

\* the answers of httpx.head
ProbeResults == {"200", "404", "error"}

\* the rewriting of a video URL into its embeddable form
EmbedUrl(url) ==
    CASE url = "absent"  -> ""
      [] url = "watch_v" -> "https://www.youtube.com/embed/<id>"
      [] OTHER           -> url

\* data.get("explanation", "")[:150] + "..."
Explanation150(obj) ==
    IF obj.explanation = "absent" THEN "..." ELSE "upstream[:150]..."

\* httpx.head(image_url, timeout=3): no request can be made for "" or None
ProbeOf(obj, h) == IF obj.url \in {"absent", "null"} THEN "error" ELSE h

\* the first try block of fetch_nasa_apod
ApodPrimary(p, h) ==
    CASE p.status = "error"  -> Raise
      [] p.status = "non200" -> FallThrough
      [] p.kind # "object"   -> Raise
      [] p.obj.media_type = "video" ->
            IF p.obj.url = "null" \/ p.obj.explanation = "null"
            THEN Raise
            ELSE Return([title |-> GetKey(p.obj, "title", "NASA Video"),
                         url |-> EmbedUrl(p.obj.url),
                         media_type |-> "video",
                         explanation |-> Explanation150(p.obj)])
      [] OTHER ->
            IF ProbeOf(p.obj, h) = "200" /\ p.obj.explanation # "null"
            THEN Return([title |-> GetKey(p.obj, "title", "NASA Bild"),
                         url |-> "upstream",
                         media_type |-> "image",
                         explanation |-> Explanation150(p.obj)])
            ELSE FallThrough

\* the second try block of fetch_nasa_apod: yesterday's picture
ApodSecondary(q) ==
    CASE q.status = "error"  -> Raise
      [] q.status = "non200" -> FallThrough
      [] q.kind # "object"   -> Raise
      [] q.obj.media_type = "image" ->
            IF q.obj.explanation = "null"
            THEN Raise
            ELSE Return([title |-> GetKey(q.obj, "title", "NASA APOD (Yesterday)"),
                         url |-> GetKey(q.obj, "url", ""),
                         media_type |-> "image",
                         explanation |-> IF q.obj.explanation = "absent"
                                         THEN "Gestern: ..."
                                         ELSE "Gestern: upstream[:140]..."])
      [] OTHER -> FallThrough

ApodSentinel ==
    [title |-> "Hubble Ultra Deep Field",
     url |-> "https://cdn.esahubble.org/archives/images/screen/heic0611b.jpg",
     media_type |-> "image",
     explanation |-> "Das Hubble Ultra Deep Field - ein Blick in die Tiefen des Universums."]

\* fetch_nasa_apod(), the undecorated function
FetchNasaApod(p, h, q) ==
    TryThen(ApodPrimary(p, h), Catch(ApodSecondary(q), ApodSentinel))

\* the earth-image answer: a list of candidates.  A candidate's date and
\* image name make the URL building raise ("bad") or not ("ok"); the
\* existence probe of a usable candidate answers 200, 404 or fails; a
\* candidate that is returned has a caption or not
EpicItems ==
    {[date |-> "bad", probe |-> "none", caption |-> "absent"],
     [date |-> "ok", probe |-> "404", caption |-> "absent"],
     [date |-> "ok", probe |-> "error", caption |-> "absent"],
     [date |-> "ok", probe |-> "200", caption |-> "absent"],
     [date |-> "ok", probe |-> "200", caption |-> "value"]}

RECURSIVE SeqsUpTo(_, _)
SeqsUpTo(S, n) ==
    IF n = 0 THEN {<<>>}
    ELSE LET shorter == SeqsUpTo(S, n - 1)
         IN  shorter \cup {Append(q, x) : q \in shorter, x \in S}

EpicResponses ==
    {[status |-> st, kind |-> "none", items |-> <<>>] : st \in {"error", "non200"}}
    \cup {[status |-> "200", kind |-> k, items |-> <<>>] : k \in {"nojson", "object"}}
    \cup {[status |-> "200", kind |-> "list", items |-> q] :
            q \in SeqsUpTo(EpicItems, MaxEpicItems)}

\* how many candidates fetch_nasa_epic looks at: data[:3]
EpicCandidates == 3

EpicFallback ==
    [caption |-> "NASA Earth Observatory",
     url |-> "https://eoimages.gsfc.nasa.gov/images/imagerecords/73000/73909/world.topo.bathy.200412.3x5400x2700.jpg",
     date |-> "Archive Image"]

\* the archive URL and the date string of candidate i
EpicUrls == <<"archive/1.jpg", "archive/2.jpg", "archive/3.jpg">>

EpicDates == <<"date 1", "date 2", "date 3">>

EpicRecord(item, i) ==
    [caption |-> IF item.caption = "absent" THEN "Earth from Space"
                 ELSE "upstream",
     url |-> EpicUrls[i], date |-> EpicDates[i]]

\* a loop that gives up at the first candidate that does not resolve
EpicScanFirstOnly(items, i) ==
    IF i > Len(items) \/ i > EpicCandidates
    THEN FallThrough
    ELSE IF items[i].date = "ok" /\ items[i].probe = "200"
         THEN Return(EpicRecord(items[i], i))
         ELSE FallThrough

\* for item in data[:3]: from candidate i on
RECURSIVE EpicScan(_, _)
EpicScan(items, i) ==
    IF i > Len(items) \/ i > EpicCandidates
    THEN FallThrough
    ELSE IF items[i].date = "ok" /\ items[i].probe = "200"
         THEN Return(EpicRecord(items[i], i))
         ELSE EpicScan(items, i + 1)

\* the try block of fetch_nasa_epic
EpicTry(resp) ==
    CASE resp.status = "error"  -> Raise
      [] resp.status = "non200" -> FallThrough
      [] resp.kind \in {"nojson", "object"} -> Raise
      [] OTHER -> EpicScan(resp.items, 1)

\* fetch_nasa_epic(), the undecorated function
FetchNasaEpic(resp) == Catch(EpicTry(resp), EpicFallback)

\* the candidates for which the loop from candidate i on calls httpx.head,
\* in the order of the calls: building the URL of a "bad" candidate raises
\* before the call, and the loop ends with the first 200
RECURSIVE EpicProbedFrom(_, _)
EpicProbedFrom(items, i) ==
    IF i > Len(items) \/ i > EpicCandidates
    THEN <<>>
    ELSE IF items[i].date # "ok"
         THEN EpicProbedFrom(items, i + 1)
         ELSE IF items[i].probe = "200"
              THEN <<i>>
              ELSE <<i>> \o EpicProbedFrom(items, i + 1)

\* the probes of one fetch_nasa_epic call
EpicProbed(resp) ==
    IF resp.status = "200" /\ resp.kind = "list"
    THEN EpicProbedFrom(resp.items, 1) ELSE <<>>

(***************************************************************************)
(* The fetcher model: each step is one run of an undecorated fetcher on    *)
(* answers the upstream services can give.                                 *)
(***************************************************************************)
Fetched(op, station, inputs, out) ==
    [op |-> op, station |-> station, inputs |-> inputs, out |-> out]

\* the fetchers read no program state: each behaviour runs one of them once
FetchMetarStep ==
    /\ fetched.op = "none"
    /\ \E st \in Stations, r \in MetarResponses :
        fetched' = Fetched("fetch_metar", st, <<r>>, FetchMetar(st, r))
    /\ lastReq' = NoReq("other", now)
    /\ UNCHANGED <<webVars, aggVars, now, accessToken, tokenExpiry, refreshToken, cacheVars>>

FetchTafStep ==
    /\ fetched.op = "none"
    /\ \E st \in Stations, r \in TafResponses :
        fetched' = Fetched("fetch_taf", st, <<r>>, FetchTaf(st, r))
    /\ lastReq' = NoReq("other", now)
    /\ UNCHANGED <<webVars, aggVars, now, accessToken, tokenExpiry, refreshToken, cacheVars>>

FetchSunStep ==
    /\ fetched.op = "none"
    /\ \E r \in SunResponses :
        fetched' = Fetched("calculate_sun_moon_times", "", <<r>>,
                           CalculateSunMoonTimes(r))
    /\ lastReq' = NoReq("other", now)
    /\ UNCHANGED <<webVars, aggVars, now, accessToken, tokenExpiry, refreshToken, cacheVars>>

\* the probe and the second request are answered only if they are made
FetchApodStep ==
    /\ fetched.op = "none"
    /\ \E p \in ApodResponses :
       \E h \in IF /\ p.status = "200" /\ p.kind = "object"
                   /\ p.obj.media_type # "video"
                THEN IF p.obj.url \in {"absent", "null"}
                     THEN {"error"} ELSE ProbeResults
                ELSE {"unasked"} :
       \E q \in IF ApodPrimary(p, h).tag = "return"
                THEN {Unasked} ELSE ApodYesterdayResponses :
        fetched' = Fetched("fetch_nasa_apod", "", <<p, [probe |-> h], q>>,
                           FetchNasaApod(p, h, q))
    /\ lastReq' = NoReq("other", now)
    /\ UNCHANGED <<webVars, aggVars, now, accessToken, tokenExpiry, refreshToken, cacheVars>>

FetchEpicStep ==
    /\ fetched.op = "none"
    /\ \E r \in EpicResponses :
        fetched' = Fetched("fetch_nasa_epic", "", <<r>>, FetchNasaEpic(r))
                      @@ [probed |-> EpicProbed(r)]
    /\ lastReq' = NoReq("other", now)
    /\ UNCHANGED <<webVars, aggVars, now, accessToken, tokenExpiry, refreshToken, cacheVars>>

InitFetch == InitToken /\ refreshToken = "rt"

NextFetch ==
    \/ FetchMetarStep
    \/ FetchTafStep
    \/ FetchSunStep
    \/ FetchApodStep
    \/ FetchEpicStep
    \/ FetchActivities

SpecFetch == InitFetch /\ [][NextFetch]_vars

(***************************************************************************)
(* The activity aggregators.  Instants are seconds; days are counted from  *)
(* the first day of a 31-day month, and the offset of Europe/Berlin from   *)
(* UTC is the same on all days the model looks at.                         *)
(***************************************************************************)
Hour == 3600

Day == 86400

\* datetime.fromisoformat(start_date.replace('Z', '+00:00')).date()
UtcDate(t) == t \div Day

\* datetime.now(tz).date(), and the date of now - timedelta(days=n)
LocalDate(t, off) == (t + off) \div Day

\* now.replace(day=1, hour=0, minute=0, second=0, microsecond=0)
MonthStart(t, off) ==
    LET d == LocalDate(t, off)
    IN  (IF d >= 31 THEN 31 ELSE 0) * Day - off

\* `not activities`: None and the empty list
NoActivities(acts) == acts.none \/ acts.items = <<>>

\* sorted(activities, key=start, reverse=True): decreasing start, equal
\* starts in the order of the input
RECURSIVE InsertByStart(_, _)
InsertByStart(sorted, a) ==
    IF sorted = <<>> THEN <<a>>
    ELSE IF Head(sorted).start >= a.start
         THEN <<Head(sorted)>> \o InsertByStart(Tail(sorted), a)
         ELSE <<a>> \o sorted

RECURSIVE SortedByStart(_)
SortedByStart(items) ==
    IF items = <<>> THEN <<>>
    ELSE InsertByStart(SortedByStart(SubSeq(items, 1, Len(items) - 1)),
                       items[Len(items)])

\* the loop of calculate_streak from activity i on
RECURSIVE StreakLoop(_, _, _, _)
StreakLoop(sorted, i, checkDate, streak) ==
    IF i > Len(sorted) THEN streak
    ELSE LET activityDate == UtcDate(sorted[i].start)
         IN  IF activityDate = checkDate
             THEN StreakLoop(sorted, i + 1, checkDate - 1, streak + 1)
             ELSE IF activityDate < checkDate
             THEN streak
             ELSE StreakLoop(sorted, i + 1, checkDate, streak)

\* calculate_streak(activities) at instant t
CalculateStreak(acts, t, off) ==
    IF NoActivities(acts) THEN 0
    ELSE StreakLoop(SortedByStart(acts.items), 1, LocalDate(t, off), 0)

RECURSIVE SumDistance(_)
SumDistance(items) ==
    IF items = <<>> THEN 0 ELSE Head(items).distance + SumDistance(Tail(items))

\* f"{meters / 1000:.1f}"; the distances of the model are whole hundreds of
\* metres, for which the rounding is exact
FormatKm(meters) ==
    LET tenths == (meters + 50) \div 100
    IN  ToString(tenths \div 10) \o "." \o ToString(tenths % 10)

\* f"{n:02d}"
TwoDigits(n) == IF n < 10 THEN "0" \o ToString(n) ELSE ToString(n)

\* format_time(seconds)
FormatTime(seconds) ==
    LET hours == seconds \div 3600
        minutes == (seconds % 3600) \div 60
        secs == seconds % 60
    IN  IF hours > 0
        THEN ToString(hours) \o ":" \o TwoDigits(minutes) \o ":" \o TwoDigits(secs)
        ELSE ToString(minutes) \o ":" \o TwoDigits(secs)

\* format_pace(seconds_per_meter, distance_meters); the moving times of the
\* model are whole minutes, for which the float arithmetic is exact
FormatPace(secondsPerMeter, distanceMeters) ==
    IF distanceMeters = 0 THEN "--:--"
    ELSE LET sixtieths == secondsPerMeter * 1000
         IN  ToString(sixtieths \div 60) \o ":" \o TwoDigits(sixtieths % 60)

Started(items, from) == SelectSeq(items, LAMBDA a : a.start >= from)

OfType(items, type) == SelectSeq(items, LAMBDA a : a.type = type)

EmptyData == [display_stat |-> "--", display_label |-> "Keine Daten", streak |-> 0]

\* a headline rule that needs more than a week
StreakHeadlineAbove(streak) == streak > 7

\* `if streak >= 7`: the streak replaces the month distance as headline
StreakHeadline(streak) == streak >= 7

\* parse_strava_data(activities) at instant t
ParseStravaData(acts, t, off) ==
    IF NoActivities(acts) THEN EmptyData
    ELSE LET streak == CalculateStreak(acts, t, off)
             monthDistance == SumDistance(Started(acts.items, MonthStart(t, off)))
             weekCount == Len(Started(acts.items, t - 7 * Day))
         IN  [display_stat |-> IF StreakHeadline(streak) THEN ToString(streak)
                               ELSE FormatKm(monthDistance),
              display_label |-> IF StreakHeadline(streak) THEN "DAY STREAK"
                                ELSE "KM MONAT",
              streak |-> streak,
              month_distance |-> FormatKm(monthDistance),
              week_count |-> weekCount]

RECURSIVE MaxOf(_, _)
MaxOf(values, default) ==
    IF values = <<>> THEN default
    ELSE LET rest == MaxOf(Tail(values), default)
         IN  IF Tail(values) = <<>> \/ Head(values) >= rest
             THEN Head(values) ELSE rest

RECURSIVE MinOf(_)
MinOf(values) ==
    IF Tail(values) = <<>> THEN Head(values)
    ELSE LET rest == MinOf(Tail(values))
         IN  IF Head(values) <= rest THEN Head(values) ELSE rest

Distances(items) == [i \in 1..Len(items) |-> items[i].distance]

\* the heatmap with its week ending yesterday
HeatmapEndingYesterday(items, t, off) ==
    [i \in 1..7 |-> \E j \in 1..Len(items) :
        UtcDate(items[j].start) = LocalDate(t - (8 - i) * Day, off)]

\* the seven slots, oldest day first: slot i is day today - (7 - i)
Heatmap(items, t, off) ==
    [i \in 1..7 |->
        \E j \in 1..Len(items) :
            UtcDate(items[j].start) = LocalDate(t - (7 - i) * Day, off)]

\* the personal records of parse_strava_detailed
Records(items) ==
    LET runs == OfType(items, "Run")
        longestRun == MaxOf(Distances(runs), 0)
        fiveK == SelectSeq(runs, LAMBDA a : 4500 <= a.distance /\ a.distance <= 5500)
        fastest == IF fiveK = <<>> THEN 0
                   ELSE MinOf([i \in 1..Len(fiveK) |-> fiveK[i].moving_time])
        maxElevation ==
            MaxOf([i \in 1..Len(items) |-> items[i].total_elevation_gain], 0)
    IN  [longest_run |-> IF longestRun > 0
                         THEN FormatKm(longestRun) \o " km" ELSE "--",
         fastest_5k |-> IF fastest # 0 THEN FormatTime(fastest) ELSE "--",
         max_elevation |-> IF maxElevation > 0
                           THEN ToString(maxElevation) \o "m" ELSE "--"]

\* a parse_strava_detailed that answers an empty list with a record of
\* sentinels
NoDetailSentinels ==
    [streak |-> 0, month_distance |-> "0.0", week_count |-> 0,
     heatmap |-> [i \in 1..7 |-> FALSE],
     records |-> [longest_run |-> "--", fastest_5k |-> "--",
                  max_elevation |-> "--"]]

NoDetail == [error |-> "No activities"]

\* parse_strava_detailed(activities) at instant t
ParseStravaDetailed(acts, t, off) ==
    IF NoActivities(acts) THEN NoDetail
    ELSE LET items == acts.items
             latest == items[1]
             week == Started(items, t - 7 * Day)
             run == SumDistance(OfType(week, "Run"))
             ride == SumDistance(OfType(week, "Ride"))
             swim == SumDistance(OfType(week, "Swim"))
         IN  [streak |-> CalculateStreak(acts, t, off),
              month_distance |->
                  FormatKm(SumDistance(Started(items, MonthStart(t, off)))),
              week_count |-> Len(week),
              latest |-> [distance |-> FormatKm(latest.distance),
                          time |-> FormatTime(latest.moving_time),
                          pace |-> FormatPace(latest.moving_time, latest.distance),
                          elevation |-> latest.total_elevation_gain],
              weekly |-> [run |-> FormatKm(run), ride |-> FormatKm(ride),
                          swim |-> FormatKm(swim),
                          total |-> FormatKm(run + ride + swim)],
              heatmap |-> Heatmap(items, t, off),
              records |-> Records(items)]

(***************************************************************************)
(* The aggregator model: the activity list, the clock and the offset are   *)
(* drawn at the start, and each step is one call of an aggregator.         *)
(***************************************************************************)
\* the lists of the model have at most MaxActs activities
MaxActs == 3

\* the day, counted from the first of the month before, on which the
\* aggregators are called
RefDay == 33

\* an activity without total_elevation_gain is read as one with 0
Workouts ==
    {[type |-> "Run", distance |-> 5000, moving_time |-> 1500,
      total_elevation_gain |-> 0],
     [type |-> "Ride", distance |-> 30000, moving_time |-> 3600,
      total_elevation_gain |-> 120]}

\* start instants (UTC): late morning of the reference day and of days
\* before it, and the last hour of a UTC day, which in Europe/Berlin is
\* already the next day
StartInstants ==
    {RefDay * Day + 10 * Hour,
     (RefDay - 1) * Day + 23 * Hour,
     (RefDay - 1) * Day + 10 * Hour,
     (RefDay - 2) * Day + 10 * Hour,
     (RefDay - 3) * Day + 23 * Hour,
     (RefDay - 3) * Day + 10 * Hour,
     (RefDay - 8) * Day + 10 * Hour}

ActivityRecords ==
    {[start |-> st, type |-> w.type, distance |-> w.distance,
      moving_time |-> w.moving_time,
      total_elevation_gain |-> w.total_elevation_gain] :
        st \in StartInstants, w \in Workouts}

\* the longest run of days with one activity each
MaxStreakDays == 8

\* a 5 km run in the late morning of day d
DailyRun(d) ==
    [start |-> d * Day + 10 * Hour, type |-> "Run", distance |-> 5000,
     moving_time |-> 1500, total_elevation_gain |-> 0]

\* one run on each of the k days up to the reference day, newest first (as
\* the activities endpoint lists them) or oldest first
DailyLists ==
    {[none |-> FALSE, items |-> [j \in 1..k |-> DailyRun(RefDay - (j - 1))]] :
        k \in 1..MaxStreakDays}
    \cup {[none |-> FALSE, items |-> [j \in 1..k |-> DailyRun(RefDay - (k - j))]] :
        k \in 1..MaxStreakDays}

ActivityLists ==
    {NoneActivities}
    \cup {[none |-> FALSE, items |-> q] : q \in SeqsUpTo(ActivityRecords, MaxActs)}
    \cup DailyLists

\* the aggregators are called in the afternoon, or in the last hour of the
\* UTC day
CallInstants == {RefDay * Day + 13 * Hour, RefDay * Day + 23 * Hour}

Aggregated(op, out) == [op |-> op, out |-> out]

CalculateStreakStep ==
    /\ aggregated' = Aggregated("calculate_streak",
                                Return(CalculateStreak(activities, now, utcOffset)))
    /\ UNCHANGED <<webVars, now, activities, utcOffset, cacheVars, tokenVars, fetched>>

ParseStravaDataStep ==
    /\ aggregated' = Aggregated("parse_strava_data",
                                Return(ParseStravaData(activities, now, utcOffset)))
    /\ UNCHANGED <<webVars, now, activities, utcOffset, cacheVars, tokenVars, fetched>>

ParseStravaDetailedStep ==
    /\ aggregated' = Aggregated("parse_strava_detailed",
                                Return(ParseStravaDetailed(activities, now, utcOffset)))
    /\ UNCHANGED <<webVars, now, activities, utcOffset, cacheVars, tokenVars, fetched>>

InitAgg ==
    /\ now \in CallInstants
    /\ activities \in ActivityLists
    /\ utcOffset \in {Hour, 2 * Hour}
    /\ aggregated = NoAgg
    /\ wrapped = "fetch_strava_activities"
    /\ cache = [op \in Ops |-> EmptyDict]
    /\ hist = [op \in Ops |-> EmptyDict]
    /\ cleared = [op \in Ops |-> EmptyDict]
    /\ lastCall = NoCall("init", "none", 0)
    /\ refreshToken = "rt"
    /\ accessToken = "None"
    /\ tokenExpiry = 0
    /\ lastReq = NoReq("init", 0)
    /\ fetched = NoFetch
    /\ InitWeb

NextAgg ==
    \/ CalculateStreakStep
    \/ ParseStravaDataStep
    \/ ParseStravaDetailedStep

SpecAgg == InitAgg /\ [][NextAgg]_vars

(***************************************************************************)
(* Concurrent callers of one wrapper.  The development server of           *)
(* app.run() serves each request in its own thread, so several threads can *)
(* be between the lines of timed_cache.wrapper at once.  A thread reads    *)
(* the clock and tests the entry (lines 58-65), then runs func, which      *)
(* waits for the upstream service while the clock and the other threads    *)
(* go on (line 68), then stores the pair (line 69).                        *)
(***************************************************************************)
RaceArgs == CHOOSE a \in ArgsOf(wrapped) : TRUE

RaceKey == CacheKey(RaceArgs, NoKwargs)

\* History kept for the concurrent callers: cleared[op] holds the threads
\* that were inside func when clear_cache() last ran, hist[op][key] is set
\* while the entry of key is one that such a thread stored, and lastCall is
\* the last call that entered the wrapper.
InFlight == {c \in Callers : callers[c].pc = "calling"}

RaceCall(hit) ==
    [kind |-> "call", op |-> wrapped, key |-> RaceKey, at |-> now,
     invoked |-> ~hit,
     ret |-> IF hit THEN cache[wrapped][RaceKey].result ELSE "none",
     prev |-> IF hit THEN HistOf(wrapped, RaceKey) ELSE NoInvocation,
     hadEntry |-> RaceKey \in DOMAIN cache[wrapped],
     entry |-> EntryOf(wrapped, RaceKey),
     afterClear |-> FALSE, dropped |-> NoEntry]

\* lines 58-65: key and now are taken, a fresh entry is returned, anything
\* else sends the thread on to func
WrapperEnter(c) ==
    /\ callers[c].pc = "idle"
    /\ callers' = [callers EXCEPT ![c] =
                     IF CacheHit(wrapped, RaceKey, now)
                     THEN [pc |-> "idle", now |-> now,
                           result |-> cache[wrapped][RaceKey].result]
                     ELSE [pc |-> "calling", now |-> now, result |-> "none"]]
    /\ lastCall' = RaceCall(CacheHit(wrapped, RaceKey, now))
    /\ UNCHANGED <<now, cache, hist, cleared, wrapped, tokenVars, fetched,
                   aggVars, airport, response>>

\* lines 68-70: func returns res and the pair (result, now) is stored, now
\* being the value read at line 59
WrapperStore(c) ==
    /\ callers[c].pc = "calling"
    /\ \E res \in UpstreamResults :
          /\ cache' = [cache EXCEPT ![wrapped] =
                         DictPut(@, RaceKey,
                                 [result |-> res, timestamp |-> callers[c].now])]
          /\ callers' = [callers EXCEPT ![c] =
                           [pc |-> "idle", now |-> callers[c].now,
                            result |-> res]]
          /\ hist' = [hist EXCEPT ![wrapped] =
                        IF c \in DOMAIN cleared[wrapped]
                        THEN DictPut(@, RaceKey,
                                     [at |-> callers[c].now, result |-> res])
                        ELSE DictDrop(@, RaceKey)]
    /\ cleared' = [cleared EXCEPT ![wrapped] = DictDrop(@, c)]
    /\ UNCHANGED <<now, lastCall, wrapped, tokenVars, fetched, aggVars,
                   airport, response>>

\* wrapper.clear_cache(), line 72, as api_refresh calls it (lines 745-750)
\* in the thread of another request
WrapperClear ==
    /\ cache' = [cache EXCEPT ![wrapped] = ClearedDict(@)]
    /\ hist' = [hist EXCEPT ![wrapped] = EmptyDict]
    /\ cleared' = [cleared EXCEPT ![wrapped] =
                     [c \in InFlight |-> callers[c].now]]
    /\ lastCall' = NoCall("clear", wrapped, now)
    /\ UNCHANGED <<now, wrapped, tokenVars, fetched, aggVars, webVars>>

RaceTickStep ==
    /\ \E i \in 1..MaxInstants :
          /\ i <= Len(Instants)
          /\ Instants[i] > now
          /\ now' = Instants[i]
    /\ UNCHANGED <<cacheVars, tokenVars, fetched, aggVars, webVars>>

InitRace == InitCache

NextRace ==
    \/ \E c \in Callers : WrapperEnter(c)
    \/ \E c \in Callers : WrapperStore(c)
    \/ WrapperClear
    \/ RaceTickStep

SpecRace == InitRace /\ [][NextRace]_vars

(***************************************************************************)
(* The routes.  A request runs its handler from the first line to the      *)
(* response; what the handler reads goes through the timed_cache wrappers, *)
(* so a handler changes the caches and, on a miss of the activity cache,   *)
(* the token state.  An exception that leaves the handler is answered by   *)
(* the framework with status 500.                                          *)
(***************************************************************************)
\* the routes are followed at one instant of the early afternoon of the
\* reference day
RouteInstant == RefDay * Day + 13 * Hour

\* what resp.json() of the activities endpoint can be: a list of
\* activities, an empty list, a list with an item that has no start_date,
\* an object (an error notice, say) instead of a list
Payloads == {"acts", "empty_list", "malformed", "object"}

RouteGetResponses ==
    {[status |-> st, body |-> "nojson"] : st \in {"error", "401", "500"}}
    \cup {[status |-> "200", body |-> b] : b \in Payloads \cup {"nojson"}}

\* the token endpoint answers with a token that lasts, or not at all
RoutePostResponses(t) ==
    {[status |-> "error", body |-> NoBody],
     [status |-> "200",
      body |-> [access_token |-> "tokA", expires_at |-> t + LongLived]]}

\* the answers one run of fetch_strava_activities at t depends on: a
\* request that is not made has the placeholder answer, and a retry is
\* answered with the activities or not at all
StravaAnswers(t) ==
    {a \in RoutePostResponses(t) \X RouteGetResponses
            \X RoutePostResponses(t) \X RouteGetResponses :
        LET g == GetStravaToken(refreshToken, TokenState, t, a[1])
            retry == ~NoToken(g.ret) /\ RetriesOn(a[2])
        IN  /\ ~NeedsRefresh(TokenState, t) => a[1] = NoPost
            /\ NoToken(g.ret) => a[2] = NoGet
            /\ ~retry => (a[3] = NoPost /\ a[4] = NoGet)
            /\ retry => a[4] \in IF NoToken(RefreshStravaToken(refreshToken,
                                                              g.st, a[3]).ret)
                                 THEN {NoGet}
                                 ELSE {NoGet, [status |-> "200", body |-> "acts"]}}

NoStravaAnswers == <<NoPost, NoGet, NoPost, NoGet>>

\* the value the aggregators get for a fetcher result
PayloadOf(ret) ==
    CASE ret = "acts" ->
            [kind |-> "list",
             items |-> <<DailyRun(RefDay), DailyRun(RefDay - 1)>>]
      [] ret = "empty_list" -> [kind |-> "list", items |-> <<>>]
      [] ret = "malformed" ->
            [kind |-> "list",
             items |-> <<[type |-> "Run", distance |-> 5000,
                          moving_time |-> 1500, total_elevation_gain |-> 0]>>]
      [] ret = "object" -> [kind |-> "object", items |-> <<>>]
      [] OTHER -> [kind |-> "none", items |-> <<>>]

\* `if activities` / `if not activities`: None and [] are falsy
Truthy(p) == p.kind = "object" \/ (p.kind = "list" /\ p.items # <<>>)

AsActivities(p) == [none |-> p.kind = "none", items |-> p.items]

\* the aggregators index into the payload: x['start_date'] on every item
\* (sorted(..., key=...) in calculate_streak, the comprehensions) raises
\* KeyError when an item has no start_date, and an object raises TypeError
\* there, its items being its keys, or KeyError at activities[0]
StartDateRaises(p) ==
    \/ p.kind = "object"
    \/ \E i \in 1..Len(p.items) : "start" \notin DOMAIN p.items[i]

\* parse_strava_data(activities) as a handler calls it
CallParseStravaData(p, t, off) ==
    IF Truthy(p) /\ StartDateRaises(p)
    THEN Raise
    ELSE Return(ParseStravaData(AsActivities(p), t, off))

\* parse_strava_detailed(activities) as a handler calls it
CallParseStravaDetailed(p, t, off) ==
    IF Truthy(p) /\ StartDateRaises(p)
    THEN Raise
    ELSE Return(ParseStravaDetailed(AsActivities(p), t, off))

\* the part of each answer set the routes are followed with: no answer, a
\* status other than 200, a body that is no JSON, and the complete object
Plain(responses) ==
    {r \in responses :
        \/ r.status # "200"
        \/ r.kind = "nojson"
        \/ r.kind = "object" /\ \A k \in DOMAIN r.obj : r.obj[k] = "value"}

Down == [status |-> "error", kind |-> "none", obj |-> <<>>]

RouteMetarAnswers == Plain(MetarResponses)

RouteTafAnswers == Plain(TafResponses)

RouteSunAnswers == Plain(SunResponses)

\* today's image is there and its probe answers 200, or the source is down
\* for today and for yesterday
RouteApodAnswers ==
    {<<[status |-> "200", kind |-> "object",
        obj |-> [media_type |-> "image", url |-> "plain", title |-> "value",
                 explanation |-> "value"]], "200", Unasked>>,
     <<Down, "unasked", Down>>}

\* one candidate that resolves, or the source is down
RouteEpicAnswers ==
    {[status |-> "200", kind |-> "list",
      items |-> <<[date |-> "ok", probe |-> "200", caption |-> "value"]>>],
     [status |-> "error", kind |-> "none", items |-> <<>>]}

NoArgs == <<>>

KeyOf(args) == CacheKey(args, NoKwargs)

\* whether wrapper(*args) of op gets as far as func
Misses(op, args) == ~CacheHit(op, KeyOf(args), now)

\* what wrapper(*args) of op returns when func, if it runs, returns res
Served(op, args, res) ==
    IF Misses(op, args) THEN res ELSE cache[op][KeyOf(args)].result

\* the dict of op after that call
After(op, args, res) ==
    IF Misses(op, args)
    THEN DictPut(cache[op], KeyOf(args), [result |-> res, timestamp |-> now])
    ELSE cache[op]

\* the dict of op after op.clear_cache() and that call
AfterClear(op, args, res) ==
    DictPut(ClearedDict(cache[op]), KeyOf(args),
            [result |-> res, timestamp |-> now])

\* the answers a handler's call of a wrapper depends on
AnswersIf(asked, answers, none) == IF asked THEN answers ELSE {none}

StravaRun(a) ==
    FetchStravaActivities(refreshToken, TokenState, now, a[1], a[2], a[3], a[4])

\* DINO_FACTS as load_dino_data() reads it
DinoFacts ==
    <<[name |-> "Tyrannosaurus", fact |-> "fact 1"],
      [name |-> "Triceratops", fact |-> "fact 2"]>>

\* the names asked for, and str.lower() on them
DinoNames == {"Tyrannosaurus", "TRICERATOPS", "Nessie"}

Lower(s) ==
    CASE s = "Tyrannosaurus" -> "tyrannosaurus"
      [] s \in {"Triceratops", "TRICERATOPS"} -> "triceratops"
      [] s = "Nessie" -> "nessie"

\* get_daily_dino()
GetDailyDino(t, off) ==
    IF DinoFacts = <<>>
    THEN [name |-> "No Dino", fact |-> "Dino data not available"]
    ELSE DinoFacts[(LocalDate(t, off) % Len(DinoFacts)) + 1]

\* an "error" object that carries the name asked for as well
DinoNotFoundEchoing(name) == [error |-> "Dino not found", name |-> name]

DinoNotFound(name) == [error |-> "Dino not found"]

\* get_dino_details(dino_name)
GetDinoDetails(name) ==
    LET found == {i \in 1..Len(DinoFacts) : Lower(DinoFacts[i].name) = Lower(name)}
    IN  IF found = {} THEN DinoNotFound(name)
        ELSE DinoFacts[CHOOSE i \in found : \A j \in found : i <= j]

\* jsonify(body), render_template(...), and the framework's answer to an
\* exception that leaves the handler
Json(endpoint, status, body) ==
    [endpoint |-> endpoint, method |-> "GET", status |-> status,
     json |-> TRUE, body |-> body]

Page(endpoint, template, context) ==
    [endpoint |-> endpoint, method |-> "GET", status |-> 200, json |-> FALSE,
     body |-> [template |-> template, context |-> context]]

ServerError(endpoint, exc) ==
    [endpoint |-> endpoint, method |-> "GET", status |-> 500, json |-> FALSE,
     body |-> [exception |-> exc]]

ActivityOp == "fetch_strava_activities"

\* `parse_strava_data(activities) if activities else None`
StravaData(ret) ==
    IF Truthy(PayloadOf(ret))
    THEN CallParseStravaData(PayloadOf(ret), now, utcOffset)
    ELSE Return([none |-> TRUE])

\* home()
Home ==
    \E a \in AnswersIf(Misses(ActivityOp, NoArgs) /\ refreshToken # "",
                       StravaAnswers(now), NoStravaAnswers) :
        LET f == StravaRun(a)
            miss == Misses(ActivityOp, NoArgs)
            strava == StravaData(Served(ActivityOp, NoArgs, f.ret))
        IN  /\ accessToken' = IF miss THEN f.st.token ELSE accessToken
            /\ tokenExpiry' = IF miss THEN f.st.expiry ELSE tokenExpiry
            /\ IF strava.tag # "return"
               THEN /\ cache' = [cache EXCEPT
                                   ![ActivityOp] = After(ActivityOp, NoArgs, f.ret)]
                    /\ response' = ServerError("/", "parse_strava_data")
               ELSE \E m \in AnswersIf(Misses("fetch_metar", <<airport>>),
                                       RouteMetarAnswers, Down) :
                    \E p \in AnswersIf(Misses("fetch_nasa_apod", NoArgs),
                                       RouteApodAnswers, <<Down, "unasked", Down>>) :
                    \E e \in AnswersIf(Misses("fetch_nasa_epic", NoArgs),
                                       RouteEpicAnswers,
                                       [status |-> "error", kind |-> "none",
                                        items |-> <<>>]) :
                       LET metar == FetchMetar(airport, m).val
                           apod == FetchNasaApod(p[1], p[2], p[3]).val
                           epic == FetchNasaEpic(e).val
                       IN  /\ cache' = [cache EXCEPT
                                 ![ActivityOp] = After(ActivityOp, NoArgs, f.ret),
                                 !["fetch_metar"] = After("fetch_metar", <<airport>>, metar),
                                 !["fetch_nasa_apod"] = After("fetch_nasa_apod", NoArgs, apod),
                                 !["fetch_nasa_epic"] = After("fetch_nasa_epic", NoArgs, epic)]
                           /\ response' = Page("/", "dashboard.html",
                                 [metar |-> Served("fetch_metar", <<airport>>, metar),
                                  dino |-> GetDailyDino(now, utcOffset),
                                  nasa_apod |-> Served("fetch_nasa_apod", NoArgs, apod),
                                  nasa_epic |-> Served("fetch_nasa_epic", NoArgs, epic),
                                  strava |-> strava.val])
            /\ UNCHANGED <<now, hist, cleared, lastCall, wrapped, refreshToken,
                           lastReq, fetched, aggVars, airport, callers>>

\* strava_page()
StravaPage ==
    \E a \in AnswersIf(Misses(ActivityOp, NoArgs) /\ refreshToken # "",
                       StravaAnswers(now), NoStravaAnswers) :
        LET f == StravaRun(a)
            miss == Misses(ActivityOp, NoArgs)
            strava == StravaData(Served(ActivityOp, NoArgs, f.ret))
        IN  /\ accessToken' = IF miss THEN f.st.token ELSE accessToken
            /\ tokenExpiry' = IF miss THEN f.st.expiry ELSE tokenExpiry
            /\ cache' = [cache EXCEPT
                           ![ActivityOp] = After(ActivityOp, NoArgs, f.ret)]
            /\ response' = IF strava.tag # "return"
                           THEN ServerError("/strava", "parse_strava_data")
                           ELSE Page("/strava", "strava.html",
                                     [strava |-> strava.val])
            /\ UNCHANGED <<now, hist, cleared, lastCall, wrapped, refreshToken,
                           lastReq, fetched, aggVars, airport, callers>>

\* api_refresh(): the six clear_cache() calls, then every source again
ApiRefresh ==
    \E a \in AnswersIf(refreshToken # "", StravaAnswers(now), NoStravaAnswers) :
    \E m \in RouteMetarAnswers :
    \E p \in RouteApodAnswers :
    \E e \in RouteEpicAnswers :
        LET f == StravaRun(a)
            strava == StravaData(f.ret)
            metar == FetchMetar(airport, m).val
            apod == FetchNasaApod(p[1], p[2], p[3]).val
            epic == FetchNasaEpic(e).val
        IN  /\ accessToken' = f.st.token
            /\ tokenExpiry' = f.st.expiry
            /\ cache' = [cache EXCEPT
                  ![ActivityOp] = AfterClear(ActivityOp, NoArgs, f.ret),
                  !["fetch_metar"] = AfterClear("fetch_metar", <<airport>>, metar),
                  !["fetch_nasa_apod"] = AfterClear("fetch_nasa_apod", NoArgs, apod),
                  !["fetch_nasa_epic"] = AfterClear("fetch_nasa_epic", NoArgs, epic),
                  !["fetch_taf"] = ClearedDict(@),
                  !["calculate_sun_moon_times"] = ClearedDict(@)]
            /\ response' = IF strava.tag # "return"
                           THEN ServerError("/api/refresh", "parse_strava_data")
                           ELSE Json("/api/refresh", 200,
                                     [metar |-> metar,
                                      dino |-> GetDailyDino(now, utcOffset),
                                      nasa_apod |-> apod, nasa_epic |-> epic,
                                      strava |-> strava.val])
            /\ UNCHANGED <<now, hist, cleared, lastCall, wrapped, refreshToken,
                           lastReq, fetched, aggVars, airport, callers>>

\* api_taf()
ApiTaf ==
    \E r \in AnswersIf(Misses("fetch_taf", <<airport>>), RouteTafAnswers, Down) :
        LET taf == FetchTaf(airport, r).val
        IN  /\ cache' = [cache EXCEPT
                           !["fetch_taf"] = After("fetch_taf", <<airport>>, taf)]
            /\ response' = Json("/api/taf", 200,
                                Served("fetch_taf", <<airport>>, taf))
            /\ UNCHANGED <<now, hist, cleared, lastCall, wrapped, tokenVars,
                           fetched, aggVars, airport, callers>>

\* api_sunmoon()
ApiSunmoon ==
    \E r \in AnswersIf(Misses("calculate_sun_moon_times", NoArgs),
                       RouteSunAnswers, Down) :
        LET sun == CalculateSunMoonTimes(r).val
        IN  /\ cache' = [cache EXCEPT
                           !["calculate_sun_moon_times"] =
                               After("calculate_sun_moon_times", NoArgs, sun)]
            /\ response' = Json("/api/sunmoon", 200,
                                Served("calculate_sun_moon_times", NoArgs, sun))
            /\ UNCHANGED <<now, hist, cleared, lastCall, wrapped, tokenVars,
                           fetched, aggVars, airport, callers>>

\* api_dino_details(dino_name)
ApiDinoDetails ==
    \E name \in DinoNames :
        /\ response' = Json("/api/dino/" \o name, 200, GetDinoDetails(name))
        /\ UNCHANGED <<now, cacheVars, tokenVars, fetched, aggVars, airport,
                       callers>>

\* the answer of api_strava() when there are no activities
NoStravaData ==
    [error |-> "No Strava data available", display_stat |-> "--",
     display_label |-> "Keine Daten", streak |-> 0]

\* api_strava()
ApiStrava ==
    \E a \in AnswersIf(Misses(ActivityOp, NoArgs) /\ refreshToken # "",
                       StravaAnswers(now), NoStravaAnswers) :
        LET f == StravaRun(a)
            miss == Misses(ActivityOp, NoArgs)
            p == PayloadOf(Served(ActivityOp, NoArgs, f.ret))
            data == CallParseStravaData(p, now, utcOffset)
        IN  /\ accessToken' = IF miss THEN f.st.token ELSE accessToken
            /\ tokenExpiry' = IF miss THEN f.st.expiry ELSE tokenExpiry
            /\ cache' = [cache EXCEPT
                           ![ActivityOp] = After(ActivityOp, NoArgs, f.ret)]
            /\ response' = IF ~Truthy(p)
                           THEN Json("/api/strava", 200, NoStravaData)
                           ELSE IF data.tag # "return"
                           THEN ServerError("/api/strava", "parse_strava_data")
                           ELSE Json("/api/strava", 200, data.val)
            /\ UNCHANGED <<now, hist, cleared, lastCall, wrapped, refreshToken,
                           lastReq, fetched, aggVars, airport, callers>>

\* the answer of api_strava_detailed() when there are no activities
NoStravaDetail == [error |-> "No Strava data available"]

\* api_strava_detailed()
ApiStravaDetailed ==
    \E a \in AnswersIf(Misses(ActivityOp, NoArgs) /\ refreshToken # "",
                       StravaAnswers(now), NoStravaAnswers) :
        LET f == StravaRun(a)
            miss == Misses(ActivityOp, NoArgs)
            p == PayloadOf(Served(ActivityOp, NoArgs, f.ret))
            data == CallParseStravaDetailed(p, now, utcOffset)
        IN  /\ accessToken' = IF miss THEN f.st.token ELSE accessToken
            /\ tokenExpiry' = IF miss THEN f.st.expiry ELSE tokenExpiry
            /\ cache' = [cache EXCEPT
                           ![ActivityOp] = After(ActivityOp, NoArgs, f.ret)]
            /\ response' = IF ~Truthy(p)
                           THEN Json("/api/strava/detailed", 200, NoStravaDetail)
                           ELSE IF data.tag # "return"
                           THEN ServerError("/api/strava/detailed",
                                            "parse_strava_detailed")
                           ELSE Json("/api/strava/detailed", 200, data.val)
            /\ UNCHANGED <<now, hist, cleared, lastCall, wrapped, refreshToken,
                           lastReq, fetched, aggVars, airport, callers>>


InitApi ==
    /\ now = RouteInstant
    /\ refreshToken \in {"", "rt"}
    /\ InitTokenState
    /\ wrapped = ActivityOp
    /\ cache = [op \in Ops |-> EmptyDict]
    /\ hist = [op \in Ops |-> EmptyDict]
    /\ cleared = [op \in Ops |-> EmptyDict]
    /\ lastCall = NoCall("init", "none", 0)

NextApi ==
    \/ Home
    \/ StravaPage
    \/ ApiRefresh
    \/ ApiTaf
    \/ ApiSunmoon
    \/ ApiDinoDetails
    \/ ApiStrava
    \/ ApiStravaDetailed

SpecApi == InitApi /\ [][NextApi]_vars


(***************************************************************************)
(* The settings routes                                                     *)
(***************************************************************************)
\* the value under 'airport_icao' of a posted object: no such key, null, a
\* string
IcaoValues ==
    {[state |-> "absent", text |-> ""], [state |-> "null", text |-> ""]}
    \cup {[state |-> "string", text |-> s] :
            s \in {"    ", "EDD", " eddf ", "EDLP"}}

\* the body of a POST: not JSON, JSON that is no object, an object
SettingsBodies ==
    {[kind |-> k, airport_icao |-> [state |-> "absent", text |-> ""]] :
        k \in {"nojson", "list", "null"}}
    \cup {[kind |-> "object", airport_icao |-> v] : v \in IcaoValues}

\* str.strip().upper() on the strings that are posted
StripUpper(s) ==
    CASE s = "    "   -> ""
      [] s = " eddf " -> "EDDF"
      [] OTHER        -> s

\* the try block of the POST branch as far as the length test: get_json()
\* raises on a body that is no JSON, data.get on a body that is no object,
\* .strip() on a value that is no string
PostedIcao(b) ==
    CASE b.kind = "nojson" -> Raise
      [] b.kind # "object" -> Raise
      [] b.airport_icao.state = "null" -> Raise
      [] OTHER -> Return(StripUpper(b.airport_icao.text))

\* the caches a saved settings update clears
SettingsClearsAll == Ops

SettingsClears == {"fetch_metar", "fetch_taf"}

\* `except Exception as e: return jsonify({"error": str(e)}), 500`
Caught == 500

Posted(status, body, b) ==
    [endpoint |-> "/api/settings", method |-> "POST", status |-> status,
     json |-> TRUE, body |-> body, request |-> b]

\* api_settings(), POST
ApiSettingsPost ==
    /\ \E b \in SettingsBodies :
        LET icao == PostedIcao(b)
        IN  IF icao.tag # "return"
            THEN /\ response' = Posted(Caught, [error |-> "str(e)"], b)
                 /\ UNCHANGED <<airport, cache>>
            ELSE IF Len(icao.val) # 4
            THEN /\ response' = Posted(400, [error |-> "ICAO must be 4 characters"], b)
                 /\ UNCHANGED <<airport, cache>>
            ELSE \E saved \in BOOLEAN :
                 /\ airport' = icao.val
                 /\ IF saved
                    THEN /\ cache' = [op \in Ops |->
                                        IF op \in SettingsClears
                                        THEN ClearedDict(cache[op])
                                        ELSE cache[op]]
                         /\ response' = Posted(200, [success |-> TRUE,
                                                     airport_icao |-> icao.val], b)
                    ELSE /\ cache' = cache
                         /\ response' = Posted(500, [error |-> "Failed to save"], b)
    /\ UNCHANGED <<now, hist, cleared, lastCall, wrapped, tokenVars, fetched,
                   aggVars, callers>>

\* api_settings(), GET
ApiSettingsGet ==
    /\ response' = Json("/api/settings", 200, [airport_icao |-> airport])
    /\ UNCHANGED <<now, cacheVars, tokenVars, fetched, aggVars, airport,
                   callers>>

\* api_test_airport(icao)
ApiTestAirport ==
    \E icao \in Stations :
    \E r \in AnswersIf(Misses("fetch_metar", <<icao>>), RouteMetarAnswers, Down) :
        LET metar == Served("fetch_metar", <<icao>>, FetchMetar(icao, r).val)
        IN  /\ cache' = [cache EXCEPT
                           !["fetch_metar"] =
                               After("fetch_metar", <<icao>>, FetchMetar(icao, r).val)]
            /\ response' = Json("/api/test-airport/" \o icao, 200,
                                [valid |-> /\ metar.station # "N/A"
                                           /\ metar.raw # "METAR nicht verfuegbar",
                                 station |-> metar.station])
            /\ UNCHANGED <<now, hist, cleared, lastCall, wrapped, tokenVars,
                           fetched, aggVars, airport, callers>>

\* the settings routes are followed over the first MaxLaterInstants of
\* LaterInstants, at which cached readings have expired
MaxLaterInstants == 2

LaterInstants ==
    <<RouteInstant + 300, RouteInstant + 600, RouteInstant + 3600,
      RouteInstant + 7200>>

SettingsTickStep ==
    /\ \E i \in 1..MaxLaterInstants :
          /\ i <= Len(LaterInstants)
          /\ LaterInstants[i] > now
          /\ now' = LaterInstants[i]
    /\ response' = NoResponse
    /\ UNCHANGED <<cacheVars, tokenVars, fetched, aggVars, airport, callers>>

NextSettings ==
    \/ ApiSettingsPost
    \/ ApiSettingsGet
    \/ ApiTestAirport
    \/ ApiSunmoon
    \/ SettingsTickStep

SpecSettings == InitApi /\ [][NextSettings]_vars


(***************************************************************************)
(* Claims about the token provider and the activity fetcher, checked under *)
(* SpecToken.                                                              *)
(***************************************************************************)
IsRefresh(e) == e.ev = "refresh"

IsGet(e) == e.ev = "get"

RefreshCount(tr) == Cardinality({i \in 1..Len(tr) : IsRefresh(tr[i])})

GetCount(tr) == Cardinality({i \in 1..Len(tr) : IsGet(tr[i])})

CallsGetStravaToken == lastReq.kind \in {"fetch", "health"}

\* C4: get_strava_token calls refresh_strava_token, exactly once, exactly
\* when no access token is stored or now >= expiry - 300; otherwise it
\* returns the stored token and calls no refresh.
C4_RefreshExactlyWhenNeeded ==
    CallsGetStravaToken =>
        LET need == \/ NoToken(lastReq.pre.token)
                    \/ lastReq.at >= lastReq.pre.expiry - SafetyMargin
            g == lastReq.tokenCall
        IN  /\ need => (Len(g.trace) = 1 /\ IsRefresh(g.trace[1])
                        /\ g.ret = g.trace[1].ret)
            /\ ~need => (g.trace = <<>> /\ g.ret = lastReq.pre.token)

\* a stored token expiring in 200 seconds made get_strava_token refresh once
C4_Witness ==
    /\ CallsGetStravaToken
    /\ ~NoToken(lastReq.pre.token)
    /\ lastReq.pre.expiry - lastReq.at = 200
    /\ RefreshCount(lastReq.tokenCall.trace) = 1

FailedExchange(e) ==
    IsRefresh(e) /\ e.posted /\ e.outcome \in {"error", "non200"}

\* C5: a token exchange that fails with a transport error or a non-200
\* status leaves STRAVA_ACCESS_TOKEN and STRAVA_TOKEN_EXPIRY as they were
\* and returns None; a call all of whose exchanges fail so ends in the
\* token state it started in.
C5_FailedRefreshKeepsToken ==
    LET tr == lastReq.trace
    IN  /\ \A i \in 1..Len(tr) :
              FailedExchange(tr[i]) =>
                  (tr[i].after = tr[i].before /\ tr[i].ret = "None")
        /\ (/\ CallsGetStravaToken
            /\ \A i \in 1..Len(tr) : IsRefresh(tr[i]) => FailedExchange(tr[i]))
               => TokenState = lastReq.pre

\* an exchange failed while a token was stored, and the token is still there
C5_Witness ==
    /\ \E i \in 1..Len(lastReq.trace) :
          /\ FailedExchange(lastReq.trace[i])
          /\ ~NoToken(lastReq.trace[i].before.token)
    /\ RefreshCount(lastReq.trace) = 1
    /\ ~NoToken(accessToken)

\* the events of the trace after its first activities request
AfterFirstGet(tr) ==
    LET first == CHOOSE i \in 1..Len(tr) :
                    IsGet(tr[i]) /\ \A j \in 1..(i - 1) : ~IsGet(tr[j])
    IN  [first |-> tr[first], rest |-> SubSeq(tr, first + 1, Len(tr))]

\* C6: after a 401 on the first activities request, refresh_strava_token is
\* called exactly once and, if it returns a token, the request is sent
\* exactly once more, with that token; a retry that is not answered 200, or
\* a refresh without a token, ends the fetch with None.  A first request
\* that fails otherwise is followed by no refresh and no request.
C6_OneRefreshOneRetry ==
    (lastReq.kind = "fetch" /\ GetCount(lastReq.trace) > 0) =>
        LET x == AfterFirstGet(lastReq.trace)
            rest == x.rest
        IN  IF x.first.status = "401"
            THEN /\ Len(rest) >= 1
                 /\ IsRefresh(rest[1])
                 /\ RefreshCount(rest) = 1
                 /\ IF NoToken(rest[1].ret)
                    THEN Len(rest) = 1 /\ lastReq.ret = "None"
                    ELSE /\ Len(rest) = 2
                         /\ IsGet(rest[2])
                         /\ rest[2].token = rest[1].ret
                         /\ rest[2].status # "200" => lastReq.ret = "None"
            ELSE /\ rest = <<>>
                 /\ x.first.status # "200" => lastReq.ret = "None"

\* a 401, a successful refresh and a second 401: the fetch gave up
C6_Witness ==
    /\ lastReq.kind = "fetch"
    /\ GetCount(lastReq.trace) = 2
    /\ lastReq.trace[Len(lastReq.trace)].status = "401"
    /\ lastReq.ret = "None"

\* C7 as stated: every activities request is sent while
\* now < expiry - 300 holds for the stored expiry of the token it carries.
C7_EveryRequestInsideMargin ==
    \A i \in 1..Len(lastReq.trace) :
        IsGet(lastReq.trace[i]) =>
            lastReq.trace[i].at < lastReq.trace[i].expiry - SafetyMargin

\* C7, amended: every activities request carries either the stored token,
\* after get_strava_token found now < expiry - 300 for it, or the token a
\* refresh_strava_token call of the same fetch has just returned, whatever
\* the expires_at of that token response; a stored token that fails the
\* check is never sent as it is.
C7_CheckedOrJustRefreshed ==
    lastReq.kind = "fetch" =>
        LET tr == lastReq.trace
        IN  \A i \in 1..Len(tr) :
                IsGet(tr[i]) =>
                    \/ /\ i = 1
                       /\ tr[i].token = lastReq.pre.token
                       /\ ~NoToken(tr[i].token)
                       /\ tr[i].at < lastReq.pre.expiry - SafetyMargin
                    \/ /\ i > 1
                       /\ IsRefresh(tr[i - 1])
                       /\ tr[i - 1].outcome = "200"
                       /\ tr[i].token = tr[i - 1].body.access_token
                       /\ tr[i].expiry = tr[i - 1].body.expires_at

\* a token that was inside the safety margin when it was issued was sent
C7_Witness ==
    /\ lastReq.kind = "fetch"
    /\ \E i \in 2..Len(lastReq.trace) :
          /\ IsGet(lastReq.trace[i])
          /\ IsRefresh(lastReq.trace[i - 1])
          /\ lastReq.trace[i].at >= lastReq.trace[i].expiry - SafetyMargin

(***************************************************************************)
(* Claims about the fetchers' failure policy                               *)
(***************************************************************************)
RecordFetchers ==
    {"fetch_metar", "fetch_taf", "calculate_sun_moon_times",
     "fetch_nasa_apod", "fetch_nasa_epic"}

\* the record a fetcher returns when it has nothing from upstream
FallbackOf(f) ==
    CASE f.op = "fetch_metar" -> MetarFallback(f.station)
      [] f.op = "fetch_taf"   -> TafFallback(f.station)
      [] f.op = "calculate_sun_moon_times" -> SunFallback
      [] f.op = "fetch_nasa_apod" -> ApodSentinel
      [] f.op = "fetch_nasa_epic" -> EpicFallback

NotAnswered(resp) == resp.status # "200" \/ resp.kind = "nojson"

\* every request of the call raised, was answered with a non-200 status or
\* had a body that is no JSON
UpstreamFailed(f) ==
    IF f.op = "fetch_nasa_apod"
    THEN NotAnswered(f.inputs[1]) /\ NotAnswered(f.inputs[3])
    ELSE NotAnswered(f.inputs[1])

\* a 200 answer of the weather or sun service that lacks a key the code reads
FieldMissing(f) ==
    /\ f.op \in {"fetch_metar", "fetch_taf", "calculate_sun_moon_times"}
    /\ f.inputs[1].status = "200"
    /\ f.inputs[1].kind = "object"
    /\ \E k \in DOMAIN f.inputs[1].obj : f.inputs[1].obj[k] = "absent"

\* the activities request that ended the fetch was answered 200 with JSON
ActivitiesDelivered(tr) ==
    /\ Len(tr) > 0
    /\ IsGet(tr[Len(tr)])
    /\ tr[Len(tr)].status = "200"
    /\ tr[Len(tr)].body # "nojson"

DefaultAt(f, k) ==
    CASE f.op = "fetch_metar" /\ k = "raw" -> "Keine Daten verfuegbar"
      [] f.op = "fetch_taf" /\ k = "station" -> f.station
      [] f.op = "fetch_taf" /\ k = "raw" -> "TAF nicht verfuegbar"
      [] f.op = "fetch_taf" /\ k = "forecast" -> "[]"
      [] OTHER -> "N/A"

LocalDays(acts, off) ==
    {LocalDate(acts.items[i].start, off) : i \in 1..Len(acts.items)}

\* the largest k such that each of today, today-1, ..., today-k+1 is in days
ConsecutiveDays(days, today) ==
    CHOOSE k \in 0..Cardinality(days) :
        /\ \A j \in 0..(k - 1) : today - j \in days
        /\ today - k \notin days

\* C9 as stated: calculate_streak returns the largest k such that each of
\* the k calendar days today, today-1, ..., today-k+1 has at least one
\* activity, for any order of the list; several activities on a day count
\* once and the count stops at the first day without one.
C9_StreakIsConsecutiveDays ==
    aggregated.op = "calculate_streak" =>
        aggregated.out.val =
            ConsecutiveDays(LocalDays(activities, utcOffset),
                            LocalDate(now, utcOffset))

\* C10 as stated: for an empty list calculate_streak returns 0,
\* parse_strava_data reports streak 0 and parse_strava_detailed reports
\* "--" for the three records and false for the 7 heatmap slots.
C10_EmptyGivesSentinels ==
    (NoActivities(activities) /\ aggregated.op # "none") =>
        LET out == aggregated.out.val
        IN  /\ aggregated.out.tag = "return"
            /\ aggregated.op = "calculate_streak" => out = 0
            /\ aggregated.op = "parse_strava_data" => out.streak = 0
            /\ aggregated.op = "parse_strava_detailed" =>
                  /\ {"records", "heatmap"} \subseteq DOMAIN out
                  /\ out.records = [longest_run |-> "--", fastest_5k |-> "--",
                                    max_elevation |-> "--"]
                  /\ out.heatmap = [i \in 1..7 |-> FALSE]

\* C10, amended: for an empty list (or None) no aggregate raises;
\* calculate_streak returns 0, parse_strava_data returns display_stat "--",
\* display_label "Keine Daten" and streak 0, and parse_strava_detailed
\* returns only {"error": "No activities"}: no records, no heatmap.
C10_EmptyGivesZeroOrError ==
    (NoActivities(activities) /\ aggregated.op # "none") =>
        LET out == aggregated.out.val
        IN  /\ aggregated.out.tag = "return"
            /\ aggregated.op = "calculate_streak" => out = 0
            /\ aggregated.op = "parse_strava_data" =>
                  out = [display_stat |-> "--", display_label |-> "Keine Daten",
                         streak |-> 0]
            /\ aggregated.op = "parse_strava_detailed" =>
                  /\ DOMAIN out = {"error"}
                  /\ out.error = "No activities"

\* parse_strava_detailed was called with the empty list
C10_Witness ==
    /\ activities = [none |-> FALSE, items |-> <<>>]
    /\ aggregated.op = "parse_strava_detailed"
    /\ aggregated.out.tag = "return"

\* C11: for a non-empty list parse_strava_data shows the streak as headline
\* (display_label "DAY STREAK", display_stat the streak) exactly when the
\* streak is 7 or more, and otherwise the month distance (display_label
\* "KM MONAT", display_stat = month_distance); 7 gives the streak label and
\* 6 the month-distance label.
C11_StreakHeadlineFromSeven ==
    (aggregated.op = "parse_strava_data" /\ ~NoActivities(activities)) =>
        LET out == aggregated.out.val
        IN  /\ out.streak = CalculateStreak(activities, now, utcOffset)
            /\ IF out.streak >= 7
               THEN /\ out.display_label = "DAY STREAK"
                    /\ out.display_stat = ToString(out.streak)
               ELSE /\ out.display_label = "KM MONAT"
                    /\ out.display_stat = out.month_distance

\* a streak of exactly 7 days is shown as headline
C11_Witness ==
    /\ aggregated.op = "parse_strava_data"
    /\ aggregated.out.val.streak = 7
    /\ aggregated.out.val.display_label = "DAY STREAK"
    /\ aggregated.out.val.display_stat = "7"

(***************************************************************************)
(* Claims about the daily image and the earth image                        *)
(***************************************************************************)
IsObject(resp) == resp.status = "200" /\ resp.kind = "object"

\* url and explanation are strings where the code reads them as strings; an
\* answer with null there is no result: building the record raises
StringFields(resp) ==
    /\ resp.obj.explanation # "null"
    /\ resp.obj.media_type = "video" => resp.obj.url # "null"

\* the primary result is an image whose existence probe answers 200, or is
\* video-typed
PrimaryAccepted(f) ==
    /\ IsObject(f.inputs[1])
    /\ StringFields(f.inputs[1])
    /\ \/ f.inputs[1].obj.media_type = "video"
       \/ f.inputs[2].probe = "200"

\* the secondary result is an image; it is not probed
SecondaryAccepted(f) ==
    /\ IsObject(f.inputs[3])
    /\ StringFields(f.inputs[3])
    /\ f.inputs[3].obj.media_type = "image"

EpicCandidatesOf(resp) ==
    IF resp.status = "200" /\ resp.kind = "list"
    THEN {i \in 1..Len(resp.items) : i <= 3} ELSE {}

\* candidate i has an existence probe that answers 200
EpicResolves(resp, i) ==
    resp.items[i].date = "ok" /\ resp.items[i].probe = "200"

\* C13: fetch_nasa_epic probes at most the first 3 candidates of the list,
\* in list order, and returns the first whose probe answers 200; a candidate
\* whose probe fails or raises does not stop the later ones from being
\* tried, no candidate after the first resolving one is probed, and the
\* fallback record is returned exactly when none of the candidates resolves.
C13_FirstResolvingOfThree ==
    LET f == fetched IN
    f.op = "fetch_nasa_epic" =>
        LET r == f.inputs[1]
            cand == EpicCandidatesOf(r)
            resolving == {i \in cand : EpicResolves(r, i)}
        IN  /\ f.out.tag = "return"
            /\ \A k \in 1..Len(f.probed) : f.probed[k] \in cand
            /\ \A k \in 1..(Len(f.probed) - 1) : f.probed[k] < f.probed[k + 1]
            /\ f.out.val = EpicFallback <=> resolving = {}
            /\ resolving # {} =>
                  LET first == CHOOSE i \in resolving : \A j \in resolving : i <= j
                  IN  /\ f.out.val.url = EpicUrls[first]
                      /\ f.out.val.date = EpicDates[first]
                      /\ f.probed[Len(f.probed)] = first
                      /\ \A j \in 1..(first - 1) :
                            r.items[j].date = "ok"
                               => \E k \in 1..Len(f.probed) : f.probed[k] = j
            /\ resolving = {} =>
                  \A j \in cand :
                      r.items[j].date = "ok"
                         => \E k \in 1..Len(f.probed) : f.probed[k] = j

\* the first candidate's probe answered 404, the second resolved and was
\* returned; the third, which resolves too, and the fourth were not probed
C13_Witness ==
    /\ fetched.op = "fetch_nasa_epic"
    /\ fetched.inputs[1].status = "200"
    /\ fetched.inputs[1].kind = "list"
    /\ Len(fetched.inputs[1].items) = 4
    /\ fetched.inputs[1].items[1].probe = "404"
    /\ EpicResolves(fetched.inputs[1], 2)
    /\ EpicResolves(fetched.inputs[1], 3)
    /\ fetched.probed = <<1, 2>>
    /\ fetched.out.val.url = EpicUrls[2]

(***************************************************************************)
(* Further claims about the token provider                                 *)
(***************************************************************************)
\* C14: when no refresh token is configured, refresh_strava_token,
\* get_strava_token and fetch_strava_activities never make a network call:
\* every call, in any sequence of requests, ends with the "no token" result.
C14_NoNetworkWithoutRefreshToken ==
    refreshToken = "" =>
        /\ \A i \in 1..Len(lastReq.trace) :
              IsRefresh(lastReq.trace[i]) /\ ~lastReq.trace[i].posted
        /\ lastReq.ret = "None"
        /\ accessToken = "None"

\* a fetch without refresh token, later than the first instant, called
\* refresh_strava_token, which made no request
C14_Witness ==
    /\ refreshToken = ""
    /\ lastReq.kind = "fetch"
    /\ lastReq.at > 0
    /\ Len(lastReq.trace) = 1
    /\ ~lastReq.trace[1].posted
    /\ fetched.out = Return("None")

(***************************************************************************)
(* Claims about the provider after a refresh                               *)
(***************************************************************************)
\* the index of the last refresh_strava_token call of a request, 0 if none
LastRefreshOf(tr) ==
    IF \E i \in 1..Len(tr) : IsRefresh(tr[i])
    THEN CHOOSE i \in 1..Len(tr) :
             /\ IsRefresh(tr[i])
             /\ \A j \in (i + 1)..Len(tr) : ~IsRefresh(tr[j])
    ELSE 0

\* refresh_strava_token ran to its `return STRAVA_ACCESS_TOKEN` and the
\* token it returns passes the callers' `if not token` test: the token
\* endpoint answered 200 with both keys and a non-empty token
RefreshSucceeded(e) ==
    /\ IsRefresh(e)
    /\ e.posted
    /\ e.outcome = "200"
    /\ e.body.access_token \notin {"missing", ""}
    /\ e.body.expires_at # -1

\* the last thing the request did to the provider was a successful refresh
EndsRefreshed(req) ==
    /\ req.kind \in {"fetch", "health"}
    /\ LastRefreshOf(req.trace) > 0
    /\ RefreshSucceeded(req.trace[LastRefreshOf(req.trace)])

\* the stored pair is the one of the token response and the token is the
\* return value
StoresTheResponse ==
    EndsRefreshed(lastReq) =>
        LET e == lastReq.trace[LastRefreshOf(lastReq.trace)]
        IN  /\ accessToken = e.body.access_token
            /\ tokenExpiry = e.body.expires_at
            /\ e.ret = e.body.access_token

\* the next request is made at the same instant and calls get_strava_token
GetAtSameInstant ==
    /\ EndsRefreshed(lastReq)
    /\ now' = now
    /\ lastReq'.kind \in {"fetch", "health"}

ServedWithoutRefresh ==
    /\ lastReq'.tokenCall.trace = <<>>
    /\ lastReq'.tokenCall.ret = accessToken

\* C20, as stated: after refresh_strava_token succeeds, the stored token
\* and expiry are those of the token response, the token is returned, and a
\* get_strava_token call at the same instant returns the stored token
\* without another refresh.
C20_ValidAfterRefresh ==
    /\ []StoresTheResponse
    /\ [][GetAtSameInstant => ServedWithoutRefresh]_vars

\* C20, amended: after refresh_strava_token succeeds, the stored token and
\* expiry are those of the token response and the token is returned; a
\* get_strava_token call at the same instant returns the stored token
\* without another refresh exactly when the expires_at of the response is
\* later than now + 300, and refreshes once more otherwise.
C20_ValidWhenOutsideMargin ==
    /\ []StoresTheResponse
    /\ [][GetAtSameInstant =>
            IF now < tokenExpiry - SafetyMargin
            THEN ServedWithoutRefresh
            ELSE /\ Len(lastReq'.tokenCall.trace) = 1
                 /\ IsRefresh(lastReq'.tokenCall.trace[1])]_vars

\* a get_strava_token call found the token that a refresh stored at this
\* very instant and returned it without a refresh
C20_Witness ==
    /\ lastReq.kind = "health"
    /\ lastReq.tokenCall.trace = <<>>
    /\ lastReq.pre.expiry = lastReq.at + LongLived
    /\ lastReq.tokenCall.ret = lastReq.pre.token
    /\ ~NoToken(lastReq.pre.token)

(***************************************************************************)
(* Claims about concurrent callers of a wrapper, checked under SpecRace    *)
(***************************************************************************)
\* C19: under any interleaving of concurrent callers of one wrapped
\* operation with the same arguments, the storedAt timestamp of a key never
\* decreases when its entry is overwritten.
C19_StoredAtNeverDecreases ==
    [][\A op \in Ops :
         \A k \in (DOMAIN cache[op]) \cap (DOMAIN cache'[op]) :
             cache'[op][k].timestamp >= cache[op][k].timestamp]_vars

(***************************************************************************)
(* Claims about the routes, checked under SpecApi and SpecSettings         *)
(***************************************************************************)
DataEndpoints ==
    {"/api/strava", "/api/strava/detailed", "/api/taf", "/api/sunmoon"}
    \cup {"/api/dino/" \o n : n \in DinoNames}

DataResponse == response.json /\ response.endpoint \in DataEndpoints

Keys(body) == DOMAIN body

\* C15, as stated: a JSON response of a data endpoint that has an 'error'
\* key has no other key.
C15_ErrorCarriesNoData ==
    (DataResponse /\ "error" \in Keys(response.body)) =>
        Keys(response.body) = {"error"}

\* C15, amended: a JSON response of a data endpoint that has an 'error' key
\* has no other key, except the answer of /api/strava when there are no
\* activities, which has 'error' together with display_stat "--",
\* display_label "Keine Daten" and streak 0.
C15_ErrorAloneButStravaSummary ==
    (DataResponse /\ "error" \in Keys(response.body)) =>
        \/ Keys(response.body) = {"error"}
        \/ /\ response.endpoint = "/api/strava"
           /\ ~Truthy(PayloadOf(cache[ActivityOp][KeyOf(NoArgs)].result))
           /\ Keys(response.body) =
                  {"error", "display_stat", "display_label", "streak"}
           /\ response.body.display_stat = "--"
           /\ response.body.display_label = "Keine Daten"
           /\ response.body.streak = 0

\* a data endpoint other than /api/strava has answered with an error
\* object
C15_Witness ==
    /\ DataResponse
    /\ response.endpoint # "/api/strava"
    /\ "error" \in Keys(response.body)

UpstreamEndpoints ==
    {"/", "/strava", "/api/refresh", "/api/taf", "/api/sunmoon",
     "/api/strava", "/api/strava/detailed"}

\* C16: whatever the upstream services answer, a page or data endpoint
\* that reads upstream data is answered with a rendered response, never
\* with the framework's 500 for an exception of a fetcher or an aggregator.
C16_AlwaysRenders ==
    response.endpoint \in UpstreamEndpoints => response.status = 200

\* a posted body that fails the validation of the settings payload
FailsValidation(b) ==
    \/ b.kind # "object"
    \/ b.airport_icao.state = "absent"
    \/ /\ b.airport_icao.state = "string"
       /\ Len(StripUpper(b.airport_icao.text)) # 4

\* C17: a POST to /api/settings whose payload fails input validation
\* (airport_icao missing, not 4 characters after trimming, body not a JSON
\* object) is answered with a 4xx status and a message, never with 5xx.
C17_InvalidPayloadGets4xx ==
    (response.method = "POST" /\ FailsValidation(response.request)) =>
        /\ response.status \in 400..499
        /\ "error" \in Keys(response.body)

\* the entries a request may write or drop
Written(resp, ap) ==
    CASE resp.endpoint = "/api/taf" -> {<<"fetch_taf", KeyOf(<<ap>>)>>}
      [] resp.endpoint = "/api/sunmoon" ->
            {<<"calculate_sun_moon_times", KeyOf(NoArgs)>>}
      [] \E s \in Stations : resp.endpoint = "/api/test-airport/" \o s ->
            {<<"fetch_metar", KeyOf(<<s>>)>> :
                s \in {x \in Stations : resp.endpoint = "/api/test-airport/" \o x}}
      [] resp.method = "POST" /\ resp.status = 200 ->
            {<<op, KeyOf(<<s>>)>> : op \in {"fetch_metar", "fetch_taf"},
                                    s \in Stations}
      [] OTHER -> {}

EntriesOf(c) == {<<op, k>> : op \in Ops, k \in UNION {DOMAIN c[o] : o \in Ops}}

\* the entries that are not the same before and after a step
Changed ==
    {e \in EntriesOf(cache) \cup EntriesOf(cache') :
        \/ (e[2] \in DOMAIN cache[e[1]]) # (e[2] \in DOMAIN cache'[e[1]])
        \/ /\ e[2] \in DOMAIN cache[e[1]]
           /\ e[2] \in DOMAIN cache'[e[1]]
           /\ cache[e[1]][e[2]] # cache'[e[1]][e[2]]}

\* C18: each wrapped operation has its own entries, by call arguments: a
\* miss or an overwrite changes the entry of the operation and arguments
\* called and no other, and a saved settings update empties the METAR and
\* TAF caches and no other.
C18_OwnEntriesOnly ==
    [][/\ Changed \subseteq Written(response', airport)
       /\ (response'.method = "POST" /\ response'.status = 200) =>
              /\ cache'["fetch_metar"] = EmptyDict
              /\ cache'["fetch_taf"] = EmptyDict]_vars

\* a saved settings update has emptied the METAR cache and the sun-times
\* entry is still there
C18_Witness ==
    /\ response.method = "POST"
    /\ response.status = 200
    /\ cache["fetch_metar"] = EmptyDict
    /\ cache["calculate_sun_moon_times"] # EmptyDict

(***************************************************************************)
(* Claims about the weather record, checked under SpecFetch                *)
(***************************************************************************)
\* C21: for a 200 weather answer fetch_metar resolves every display field
\* on its own: a field that is absent or carries no value is reported with
\* its placeholder ('N/A') for that field only, every field that is present
\* keeps its upstream value, and the call neither raises nor falls back to
\* the fallback record because of one unavailable field.
C21_FieldsResolveIndependently ==
    (/\ fetched.op = "fetch_metar"
     /\ fetched.inputs[1].status = "200"
     /\ fetched.inputs[1].kind = "object") =>
        /\ fetched.out.tag = "return"
        /\ \A k \in DOMAIN fetched.inputs[1].obj :
              fetched.out.val[k] =
                  IF fetched.inputs[1].obj[k] = "value"
                  THEN "upstream"
                  ELSE DefaultAt(fetched, k)


(***************************************************************************)
(* C22: one time zone for the activity's day and for today                 *)
(***************************************************************************)

\* the activities that started on the Europe/Berlin calendar day d
StartedOnLocalDay(acts, d, off) ==
    {i \in 1..Len(acts.items) : LocalDate(acts.items[i].start, off) = d}

\* C22: an activity that started on the local calendar day D is counted for
\* day D: with an activity on today's Europe/Berlin day the streak of
\* calculate_streak is at least 1, and the heatmap of parse_strava_detailed
\* marks the slot of every one of the last 7 local days on which an
\* activity started.
C22_SameZoneForActivityAndToday ==
    LET today == LocalDate(now, utcOffset)
    IN  /\ (/\ aggregated.op = "calculate_streak"
            /\ ~NoActivities(activities)
            /\ StartedOnLocalDay(activities, today, utcOffset) # {})
               => aggregated.out.val >= 1
        /\ (/\ aggregated.op = "parse_strava_detailed"
            /\ ~NoActivities(activities))
               => \A i \in 1..7 :
                     StartedOnLocalDay(activities, today - (7 - i), utcOffset) # {}
                         => aggregated.out.val.heatmap[i]

(***************************************************************************)
(* C23: the seven heatmap slots                                            *)
(***************************************************************************)

\* C23: for a non-empty list the heatmap has exactly 7 slots, oldest first;
\* slot i (0..6, here 1..7) is true exactly when an activity falls on the
\* calendar day today - (6 - i), and the last slot is today.
C23_HeatmapSlots ==
    (/\ aggregated.op = "parse_strava_detailed"
     /\ ~NoActivities(activities)) =>
        LET heatmap == aggregated.out.val.heatmap
            today == LocalDate(now, utcOffset)
        IN  /\ DOMAIN heatmap = 1..7
            /\ \A i \in 1..7 :
                  heatmap[i] =
                      (StartedOnLocalDay(activities, today - (7 - i), utcOffset) # {})


(***************************************************************************)
(* C28: the streak and the heatmap agree                                   *)
(***************************************************************************)

\* C28: in the record parse_strava_detailed returns for a non-empty list,
\* a streak k < 7 comes with the last k heatmap slots true and the slot
\* before them false, and a streak of 7 or more with all 7 slots true.
C28_StreakAgreesWithHeatmap ==
    (/\ aggregated.op = "parse_strava_detailed"
     /\ ~NoActivities(activities)) =>
        LET k == aggregated.out.val.streak
            heatmap == aggregated.out.val.heatmap
        IN  IF k < 7
            THEN /\ \A i \in (8 - k)..7 : heatmap[i]
                 /\ ~heatmap[7 - k]
            ELSE \A i \in 1..7 : heatmap[i]

\* a streak of some days that ends at a gap inside the heatmap's week, with
\* an older activity behind the gap
C28_Witness ==
    /\ aggregated.op = "parse_strava_detailed"
    /\ ~NoActivities(activities)
    /\ aggregated.out.val.streak \in 1..5
    /\ \E i \in 1..(6 - aggregated.out.val.streak) : aggregated.out.val.heatmap[i]


(***************************************************************************)
(* C24: failures are memoized like successes                               *)
(***************************************************************************)

\* the last invocation for the call's arguments, not cleared since, gave the
\* operation's failure value
AfterFailure ==
    /\ lastCall.kind = "call"
    /\ lastCall.prev.at # -1
    /\ lastCall.prev.result = "failure"

\* C24: once a wrapped fetcher has returned its failure value, a call with
\* the same arguments less than TTL seconds later, with no clear_cache() in
\* between, returns that failure value without an upstream call and leaves
\* the entry as it was stored; TTL seconds or more later the operation is
\* invoked again; a failed fetch_strava_activities is so not retried for
\* 1800 seconds.
C24_FailuresAreMemoized ==
    AfterFailure =>
        LET age == lastCall.at - lastCall.prev.at
        IN  /\ age < TTL(lastCall.op) =>
                  /\ ~lastCall.invoked
                  /\ lastCall.ret = "failure"
                  /\ cache[lastCall.op][lastCall.key] =
                         [result |-> "failure", timestamp |-> lastCall.prev.at]
            /\ age >= TTL(lastCall.op) => lastCall.invoked
            /\ (lastCall.op = "fetch_strava_activities" /\ age < 1800) =>
                  ~lastCall.invoked

\* a failed activity fetch was served again from the cache at a later
\* instant
C24_Witness ==
    /\ AfterFailure
    /\ lastCall.op = "fetch_strava_activities"
    /\ lastCall.at > lastCall.prev.at
    /\ ~lastCall.invoked
    /\ lastCall.ret = "failure"


(***************************************************************************)
(* C25: a refresh that returns None changes nothing                        *)
(***************************************************************************)

\* C25: whenever refresh_strava_token returns None, whatever the cause (no
\* refresh token, a transport error, a non-200 status, a 200 body without
\* access_token or without expires_at), STRAVA_ACCESS_TOKEN and
\* STRAVA_TOKEN_EXPIRY have the values they had before the call.
C25_NoneLeavesTokenAndExpiry ==
    \A i \in 1..Len(lastReq.trace) :
        (IsRefresh(lastReq.trace[i]) /\ lastReq.trace[i].ret = "None") =>
            lastReq.trace[i].after = lastReq.trace[i].before


(***************************************************************************)
(* refresh_strava_token and get_strava_token under concurrent requests:    *)
(* each thread runs the two functions statement by statement, the two      *)
(* module globals being shared                                             *)
(***************************************************************************)

\* the answers of the token endpoint here: a failure, or a 200 whose body
\* has both keys and a token; each token comes with its own expiry
RaceBodies ==
    {[access_token |-> "tokA", expires_at |-> LongLived],
     [access_token |-> "tokB", expires_at |-> ShortLived]}

RacePostResponses ==
    {[status |-> st, body |-> NoBody] : st \in {"error", "non200"}}
    \cup {[status |-> "200", body |-> b] : b \in RaceBodies}

At(c, pc, data) ==
    [callers EXCEPT ![c] = [pc |-> pc, now |-> now, result |-> data]]

\* get_strava_token, line 195: the condition is evaluated on the two
\* globals; the pair it saw is kept in lastReq.pre
GetCheck(c) ==
    /\ callers[c].pc = "idle"
    /\ callers' = At(c, IF NeedsRefresh(TokenState, now) THEN "post"
                        ELSE "return", "none")
    /\ lastReq' = [NoReq("check", now) EXCEPT !.pre = TokenState]
    /\ UNCHANGED <<now, cacheVars, refreshToken, accessToken, tokenExpiry,
                   fetched, aggVars, airport, response>>

\* get_strava_token, line 198: return STRAVA_ACCESS_TOKEN
GetReturn(c) ==
    /\ callers[c].pc = "return"
    /\ callers' = At(c, "idle", "none")
    /\ lastReq' = [NoReq("return", now) EXCEPT !.pre = TokenState,
                                               !.ret = accessToken]
    /\ UNCHANGED <<now, cacheVars, refreshToken, accessToken, tokenExpiry,
                   fetched, aggVars, airport, response>>

\* refresh_strava_token called by fetch_strava_activities after a 401
RefreshEnter(c) ==
    /\ callers[c].pc = "idle"
    /\ refreshToken # ""
    /\ callers' = At(c, "post", "none")
    /\ UNCHANGED <<now, cacheVars, tokenVars, fetched, aggVars, airport,
                   response>>

\* lines 173-176 and 181-186: the exchange; a 200 leaves the thread with
\* token_data in hand
RefreshPost(c) ==
    /\ callers[c].pc = "post"
    /\ \E resp \in RacePostResponses :
          callers' = IF resp.status = "200"
                     THEN At(c, "store_token", resp.body)
                     ELSE At(c, "idle", "none")
    /\ UNCHANGED <<now, cacheVars, tokenVars, fetched, aggVars, airport,
                   response>>

\* line 177: STRAVA_ACCESS_TOKEN = token_data['access_token']
StoreToken(c) ==
    /\ callers[c].pc = "store_token"
    /\ accessToken' = callers[c].result.access_token
    /\ callers' = At(c, "store_expiry", callers[c].result)
    /\ UNCHANGED <<now, cacheVars, refreshToken, tokenExpiry, lastReq,
                   fetched, aggVars, airport, response>>

\* lines 178-180: STRAVA_TOKEN_EXPIRY = token_data['expires_at'], and the
\* token is returned
StoreExpiry(c) ==
    /\ callers[c].pc = "store_expiry"
    /\ tokenExpiry' = callers[c].result.expires_at
    /\ callers' = At(c, "idle", "none")
    /\ UNCHANGED <<now, cacheVars, refreshToken, accessToken, lastReq,
                   fetched, aggVars, airport, response>>

InitTokenRace ==
    /\ InitToken
    /\ refreshToken = "rt"

NextTokenRace ==
    \/ \E c \in Callers : GetCheck(c)
    \/ \E c \in Callers : GetReturn(c)
    \/ \E c \in Callers : RefreshEnter(c)
    \/ \E c \in Callers : RefreshPost(c)
    \/ \E c \in Callers : StoreToken(c)
    \/ \E c \in Callers : StoreExpiry(c)

SpecTokenRace == InitTokenRace /\ [][NextTokenRace]_vars

(***************************************************************************)
(* C26: token and expiry of one response                                   *)
(***************************************************************************)

\* the pairs that come from one source: the module's initial values, or the
\* two keys of one token response
PairsOfOneResponse ==
    {[token |-> "None", expiry |-> 0]}
    \cup {[token |-> b.access_token, expiry |-> b.expires_at] : b \in RaceBodies}

\* C26: under any interleaving of refresh_strava_token calls and
\* get_strava_token readers the stored token and the stored expiry come
\* from the same token response, in every reachable state, and the pair a
\* reader sees at its check is such a pair.
C26_TokenAndExpiryOfOneResponse ==
    /\ TokenState \in PairsOfOneResponse
    /\ lastReq.kind = "check" => lastReq.pre \in PairsOfOneResponse


(***************************************************************************)
(* C27: clear_cache() while a miss is in flight                            *)
(***************************************************************************)

\* C27: a call that enters the wrapper after clear_cache() has run is not
\* served a result whose upstream fetch began before that clear_cache():
\* no hit is answered from an entry stored by a thread that was inside func
\* when the cache was cleared.
C27_NoHitOnPreClearFetch ==
    (lastCall.kind = "call" /\ ~lastCall.invoked) =>
        lastCall.prev = NoInvocation

====
